---- MODULE Spec2Model ----
(***************************************************************************)
(* Synapse platform: the matching and recommendation engine                *)
(* (server/matching.ts), the matching router that exposes it               *)
(* (server/routers.ts) and the lazily created database handle              *)
(* (server/db.ts).                                                         *)
(*                                                                         *)
(* Numbers that JavaScript holds as doubles are modelled as exact          *)
(* rationals [n |-> numerator, d |-> denominator] in lowest terms with     *)
(* d > 0, so that the halves, averages and tag fractions of the scoring    *)
(* code are computed and not approximated.                                 *)
(***************************************************************************)
EXTENDS Integers, Sequences, FiniteSets, TLC

(***************************************************************************)
(* Bounds of the model.                                                    *)
(***************************************************************************)
MaxProjects == 2
MaxHistory == 2

(***************************************************************************)
(* Exact arithmetic.                                                       *)
(***************************************************************************)
Abs(i) == IF i < 0 THEN -i ELSE i

RECURSIVE GCD(_, _)
GCD(a, b) == IF b = 0 THEN a ELSE GCD(b, a % b)

Sign(d) == IF d < 0 THEN -1 ELSE 1

Reduce(n, d, g) == [n |-> n \div g, d |-> d \div g]

Q(n, d) == Reduce(Sign(d) * n, Sign(d) * d, GCD(Abs(n), Abs(d)))

I(i) == [n |-> i, d |-> 1]
QAdd(a, b) == Q(a.n * b.d + b.n * a.d, a.d * b.d)
QMulInt(a, k) == Q(a.n * k, a.d)
QDivInt(a, k) == Q(a.n, a.d * k)
QLeq(a, b) == a.n * b.d <= b.n * a.d
QMin(a, b) == IF QLeq(a, b) THEN a ELSE b
QMax(a, b) == IF QLeq(a, b) THEN b ELSE a

\* Math.round: the nearest integer, halves rounded towards +infinity.
MathRound(a) == (2 * a.n + a.d) \div (2 * a.d)

\* Math.ceil(level / 2) on an integer level.
CeilHalf(level) == (level + 1) \div 2

\* The object spread { ...a, ...b }: keys of b win.
Spread(a, b) ==
  [k \in (DOMAIN a) \cup (DOMAIN b) |-> IF k \in DOMAIN b THEN b[k] ELSE a[k]]

NoDetails == [k \in {} |-> I(0)]

\* details[key] = value
Put(details, key, value) == Spread(details, [k \in {key} |-> value])

\* if (cond) details[key] = value
PutIf(cond, details, key, value) == IF cond THEN Put(details, key, value) ELSE details

\* Math.min and Math.max on integers.
IntMin(a, b) == IF a <= b THEN a ELSE b
IntMax(a, b) == IF a >= b THEN a ELSE b

SeqToSet(s) == {s[i] : i \in 1..Len(s)}

\* Array.prototype.filter
Filter(s, Keep(_)) == SelectSeq(s, Keep)

(***************************************************************************)
(* The state: the relational store the engine reads, the match history it  *)
(* appends to, the cached database handle, and the request being served.   *)
(***************************************************************************)
VARIABLES
  DATABASE_URL,             \* process.env.DATABASE_URL is set
  _db,                      \* db.ts: the cached drizzle instance, "null" or "drizzle"
  users,                    \* rows of table users
  userSkills,               \* rows of table userSkills
  projects,                 \* rows of table projects, in row order
  projectTeamRequirements,  \* rows of table projectTeamRequirements
  matchingHistory,          \* rows of table matchingHistory, in insertion order
  pc,                       \* position of the matching.calculateScore handler
  req,                      \* the request being served (or last served)
  res,                      \* the response delivered to the caller
  console,                  \* the console.error messages of that request
  rateLimitStores,          \* securityHeaders.ts: the in-memory rate limit stores
  now,                      \* Date.now(), in ms since the process started
  windows,                  \* per client key: the last window opened and its passes
  http,                     \* the Express exchange handled by a middleware
  tx                        \* the run of withTransaction in progress (or last run)

vars == <<DATABASE_URL, _db, users, userSkills, projects,
          projectTeamRequirements, matchingHistory, pc, req, res, console,
          rateLimitStores, now, windows, http, tx>>

\* The state of the Express middleware and of the transaction helper.
serverVars == <<rateLimitStores, now, windows, http, tx>>

storeVars == <<DATABASE_URL, users, userSkills, projects, projectTeamRequirements>>

(***************************************************************************)
(* SKILL-BASED MATCHING (40% weight)                                       *)
(***************************************************************************)
proficiencyLevels(p) ==
  CASE p = "beginner" -> 1
    [] p = "intermediate" -> 2
    [] p = "advanced" -> 3
    [] p = "expert" -> 4
    [] OTHER -> 0

\* Proficiency matching on the two levels.
ProficiencyMatch(userProf, reqProf) ==
  IF userProf >= reqProf
    THEN I(30 + (userProf - reqProf) * 10)
    ELSE I(IntMax(0, 20 - (reqProf - userProf) * 10))

\* Proficiency matching of one requirement against the user's skill.
ProficiencyPoints(userSkill, r) ==
  ProficiencyMatch(proficiencyLevels(userSkill.proficiency),
                   proficiencyLevels(r.minProficiency))

\* Experience matching granting a point per surplus year.
ExperiencePointsPerYear(userSkill, r) ==
  IF userSkill.yearsOfExperience >= r.minYearsExperience
    THEN QAdd(I(30), QMin(I(10), I(userSkill.yearsOfExperience - r.minYearsExperience)))
    ELSE I(IntMax(0, 15 - (r.minYearsExperience - userSkill.yearsOfExperience) * 5))

\* Experience matching of one requirement against the user's skill.
ExperiencePoints(userSkill, r) ==
  IF userSkill.yearsOfExperience >= r.minYearsExperience
    THEN QAdd(I(30), QMin(I(10), Q(userSkill.yearsOfExperience - r.minYearsExperience, 2)))
    ELSE I(IntMax(0, 15 - (r.minYearsExperience - userSkill.yearsOfExperience) * 5))

\* userSkillsData.find((s) => s.skillId === req.skillId): index of the first
\* row with that skill, 0 when there is none.
RECURSIVE FindSkill(_, _, _)
FindSkill(userSkillsData, skillId, i) ==
  IF i > Len(userSkillsData) THEN 0
  ELSE IF userSkillsData[i].skillId = skillId THEN i
  ELSE FindSkill(userSkillsData, skillId, i + 1)

SkillKey(skillId) == "skill_" \o ToString(skillId)

\* The end of one iteration for a matched requirement: totalScore,
\* matchedSkills and details take the skill's score.
AddSkillScore(acc, r, skillScore) ==
  [totalScore |-> QAdd(acc.totalScore, skillScore),
   matchedSkills |-> acc.matchedSkills + 1,
   details |-> Put(acc.details, SkillKey(r.skillId), skillScore)]

\* One iteration: j is the position of the user's skill, 0 when the find
\* returned undefined.
ScoreRequirement(userSkillsData, r, j, acc) ==
  IF j = 0 THEN acc
  ELSE AddSkillScore(acc, r, QAdd(ProficiencyPoints(userSkillsData[j], r),
                                  ExperiencePoints(userSkillsData[j], r)))

\* The loop over teamReqs: acc carries totalScore, matchedSkills and details.
RECURSIVE ScoreRequirements(_, _, _, _)
ScoreRequirements(userSkillsData, teamReqs, i, acc) ==
  IF i > Len(teamReqs) THEN acc
  ELSE ScoreRequirements(userSkillsData, teamReqs, i + 1,
         ScoreRequirement(userSkillsData, teamReqs[i],
                          FindSkill(userSkillsData, teamReqs[i].skillId, 1), acc))

\* avgScore after the loop.
AvgScore(acc) ==
  IF acc.matchedSkills > 0 THEN QDivInt(acc.totalScore, acc.matchedSkills) ELSE I(0)

\* Bonus for skill coverage.
CoverageBonus(matchPercentage) ==
  IF ~QLeq(matchPercentage, I(70)) THEN 10
  ELSE IF ~QLeq(matchPercentage, I(40)) THEN 5
  ELSE 0

SkillResult(details, matchPercentage, finalScore) ==
  [score |-> finalScore,
   details |-> Put(Put(details, "coverage", matchPercentage), "final", finalScore)]

SkillTotals(acc, matchPercentage) ==
  SkillResult(acc.details, matchPercentage,
              QMin(I(100), QAdd(AvgScore(acc), I(CoverageBonus(matchPercentage)))))

\* The average taken over all requirements, matched or not.
SkillSummaryOverAll(acc, n) ==
  SkillResult(acc.details, Q(acc.matchedSkills * 100, n),
              QMin(I(100), QAdd(QDivInt(acc.totalScore, n),
                                I(CoverageBonus(Q(acc.matchedSkills * 100, n))))))

\* What follows the loop: n is teamReqs.length.
SkillSummary(acc, n) == SkillTotals(acc, Q(acc.matchedSkills * 100, n))

\* The try block scoring a project without requirements as 0.
ScoreSkillsNoNeutral(userSkillsData, teamReqs) ==
  IF Len(userSkillsData) = 0 THEN [score |-> I(0), details |-> NoDetails]
  ELSE IF Len(teamReqs) = 0
    THEN [score |-> I(0), details |-> Put(NoDetails, "noRequirements", I(0))]
  ELSE SkillSummary(ScoreRequirements(userSkillsData, teamReqs, 1,
                      [totalScore |-> I(0), matchedSkills |-> 0, details |-> NoDetails]),
                    Len(teamReqs))

\* The try block testing the requirements before the user's skills.
ScoreSkillsRequirementsFirst(userSkillsData, teamReqs) ==
  IF Len(teamReqs) = 0
    THEN [score |-> I(50), details |-> Put(NoDetails, "noRequirements", I(50))]
  ELSE IF Len(userSkillsData) = 0 THEN [score |-> I(0), details |-> NoDetails]
  ELSE SkillSummary(ScoreRequirements(userSkillsData, teamReqs, 1,
                      [totalScore |-> I(0), matchedSkills |-> 0, details |-> NoDetails]),
                    Len(teamReqs))

\* The body of the try block once both selects have returned.
ScoreSkills(userSkillsData, teamReqs) ==
  IF Len(userSkillsData) = 0 THEN [score |-> I(0), details |-> NoDetails]
  ELSE IF Len(teamReqs) = 0
    THEN [score |-> I(50), details |-> Put(NoDetails, "noRequirements", I(50))]
  ELSE SkillSummary(ScoreRequirements(userSkillsData, teamReqs, 1,
                      [totalScore |-> I(0), matchedSkills |-> 0, details |-> NoDetails]),
                    Len(teamReqs))

\* The skill calculator falling back on the neutral score when a select
\* throws.
calculateSkillScoreNeutralOnFailure(user, project, db, readFails) ==
  IF ~db THEN [score |-> I(0), details |-> NoDetails]
  ELSE IF readFails THEN [score |-> I(50), details |-> Put(NoDetails, "noRequirements", I(50))]
  ELSE ScoreSkills(Filter(userSkills, LAMBDA s : s.userId = user.id),
                   Filter(projectTeamRequirements, LAMBDA r : r.projectId = project.id))

\* db: the handle is not null; readFails: a select of this call throws.
calculateSkillScore(user, project, db, readFails) ==
  IF ~db THEN [score |-> I(0), details |-> NoDetails]
  ELSE IF readFails THEN [score |-> I(0), details |-> NoDetails]
  ELSE ScoreSkills(Filter(userSkills, LAMBDA s : s.userId = user.id),
                   Filter(projectTeamRequirements, LAMBDA r : r.projectId = project.id))

(***************************************************************************)
(* IEEE 754 binary64 arithmetic on positive numbers.  A natural number is  *)
(* a sequence of limbs in base 2^15, least significant first; a double is  *)
(* the pair <<m, e>> for m * 2^e with m of 53 bits, or <<<<>>, 0>> for 0.  *)
(***************************************************************************)
LimbBase == 32768

RECURSIVE Pow2(_)
Pow2(k) == IF k = 0 THEN 1 ELSE 2 * Pow2(k - 1)

RECURSIVE BigOfInt(_)
BigOfInt(n) == IF n = 0 THEN <<>> ELSE <<n % LimbBase>> \o BigOfInt(n \div LimbBase)

RECURSIVE BigTrim(_)
BigTrim(a) ==
  IF a = <<>> THEN a
  ELSE IF a[Len(a)] = 0 THEN BigTrim(SubSeq(a, 1, Len(a) - 1))
  ELSE a

RECURSIVE BigMulSmall(_, _, _)
BigMulSmall(a, k, carry) ==
  IF a = <<>> THEN BigOfInt(carry)
  ELSE <<(a[1] * k + carry) % LimbBase>>
       \o BigMulSmall(Tail(a), k, (a[1] * k + carry) \div LimbBase)

RECURSIVE BigAdd(_, _, _)
BigAdd(a, b, carry) ==
  IF a = <<>> /\ b = <<>> THEN BigOfInt(carry)
  ELSE IF a = <<>> THEN BigAdd(<<0>>, b, carry)
  ELSE IF b = <<>> THEN BigAdd(a, <<0>>, carry)
  ELSE <<(a[1] + b[1] + carry) % LimbBase>>
       \o BigAdd(Tail(a), Tail(b), (a[1] + b[1] + carry) \div LimbBase)

RECURSIVE BigMul(_, _)
BigMul(a, b) ==
  IF b = <<>> \/ a = <<>> THEN <<>>
  ELSE BigTrim(BigAdd(BigMulSmall(a, b[1], 0), <<0>> \o BigMul(a, Tail(b)), 0))

\* Long division by d < 2^15 from limb i down, r the running remainder:
\* the quotient limbs (least significant first) and the final remainder.
RECURSIVE BigDivFrom(_, _, _, _, _)
BigDivFrom(a, d, i, r, q) ==
  IF i = 0 THEN [q |-> BigTrim(q), r |-> r]
  ELSE BigDivFrom(a, d, i - 1, (r * LimbBase + a[i]) % d,
                  <<(r * LimbBase + a[i]) \div d>> \o q)

BigDivSmall(a, d) == BigDivFrom(a, d, Len(a), 0, <<>>)

RECURSIVE BitLenOfLimb(_)
BitLenOfLimb(x) == IF x = 0 THEN 0 ELSE 1 + BitLenOfLimb(x \div 2)

BigBitLen(a) == IF a = <<>> THEN 0 ELSE 15 * (Len(a) - 1) + BitLenOfLimb(a[Len(a)])

BigBit(a, i) == IF i \div 15 + 1 > Len(a) THEN 0 ELSE (a[i \div 15 + 1] \div Pow2(i % 15)) % 2

\* The k low bits of a are all zero.
BigLowZero(a, k) ==
  /\ \A j \in 1..(k \div 15) : j > Len(a) \/ a[j] = 0
  /\ (k \div 15 + 1 > Len(a) \/ a[k \div 15 + 1] % Pow2(k % 15) = 0)

BigShr(a, s) ==
  IF s \div 15 >= Len(a) THEN <<>>
  ELSE BigDivSmall(SubSeq(a, s \div 15 + 1, Len(a)), Pow2(s % 15)).q

BigInc(a) == BigAdd(a, <<1>>, 0)

RECURSIVE BigGeqFrom(_, _, _)
BigGeqFrom(a, b, i) ==
  IF i = 0 THEN TRUE
  ELSE IF a[i] # b[i] THEN a[i] > b[i]
  ELSE BigGeqFrom(a, b, i - 1)

BigGeq(a, b) ==
  IF Len(a) # Len(b) THEN Len(a) > Len(b) ELSE BigGeqFrom(a, b, Len(a))

\* Round to nearest, ties to even: up when the first dropped bit is set and
\* a lower bit, the remainder or the last kept bit is.
RoundsUp(q, s, sticky) ==
  /\ BigBit(q, s - 1) = 1
  /\ (sticky \/ ~BigLowZero(q, s - 1) \/ BigBit(q, s) = 1)

\* m of 54 bits after the increment is 2^53: it becomes 2^52 one binade up.
Renormalize(m, e) ==
  IF BigBitLen(m) > 53 THEN <<BigShr(m, 1), e + 1>> ELSE <<m, e>>

RoundShifted(q, s, sticky, e) ==
  Renormalize(IF RoundsUp(q, s, sticky) THEN BigInc(BigShr(q, s)) ELSE BigShr(q, s), e + s)

\* The double nearest to q * 2^e (+ a fraction below one unit of q when
\* sticky), q of at least 54 bits.
RoundBig(q, sticky, e) == RoundShifted(q, BigBitLen(q) - 53, sticky, e)

RoundQuotient(qr, e) == RoundBig(qr.q, qr.r # 0, e)

\* The double nearest to n / d, for n > 0 and 0 < d < 2^15.
RoundRatio(n, d) ==
  RoundQuotient(BigDivSmall(<<0, 0, 0, 0, 0, 0>> \o BigOfInt(n), d), -90)

DoubleZero == <<<<>>, 0>>

DoubleOf(n, d) == IF n = 0 THEN DoubleZero ELSE RoundRatio(n, d)

\* x * y
DoubleMul(x, y) ==
  IF x[1] = <<>> \/ y[1] = <<>> THEN DoubleZero
  ELSE RoundBig(BigMul(x[1], y[1]), FALSE, x[2] + y[2])

\* x >= y
DoubleGeq(x, y) ==
  IF y[1] = <<>> THEN TRUE
  ELSE IF x[1] = <<>> THEN FALSE
  ELSE IF x[2] # y[2] THEN x[2] > y[2]
  ELSE BigGeq(x[1], y[1])

\* parseFloat of a decimal(15,2) string, the amount given in cents.
parseFloat(cents) == DoubleOf(cents, 100)

(***************************************************************************)
(* INVESTMENT MATCHING (25% weight)                                        *)
(* Decimal columns (earnings, totalInvestmentNeeded) are held in cents;    *)
(* parseFloat divides both sides of every comparison by 100.               *)
(***************************************************************************)
\* A nullable decimal column is <<>> (null) or <<cents>>.
StageTag(stage) == "stage_" \o stage

\* The number literal 0.2.
Fifth == DoubleOf(2, 10)

\* userInvestmentCapacity >= investmentNeeded * 0.2, on doubles.
CanContribute(userInvestmentCapacity, investmentNeeded) ==
  DoubleGeq(parseFloat(userInvestmentCapacity),
            DoubleMul(parseFloat(investmentNeeded), Fifth))

\* Investment amount matching, both amounts in cents.  Doubling and halving
\* a double are exact and parseFloat is increasing on amounts in cents, so
\* the first two tests are those of the amounts; the product by 0.2 rounds.
FundingCapacity(userInvestmentCapacity, investmentNeeded) ==
  IF userInvestmentCapacity >= investmentNeeded THEN 30
  ELSE IF 2 * userInvestmentCapacity >= investmentNeeded THEN 20
  ELSE IF CanContribute(userInvestmentCapacity, investmentNeeded) THEN 10
  ELSE 0

InvestmentDetails(user, fundingCapacity, stagePreference, experienceBonus, final) ==
  [score |-> I(final),
   details |->
     Put(PutIf(user.investments > 0,
               Put(PutIf(fundingCapacity > 0, NoDetails,
                         "fundingCapacity", I(fundingCapacity)),
                   "stagePreference", I(stagePreference)),
               "experience", I(experienceBonus)),
         "final", I(final))]

\* The score and details of an investor on a project seeking investment.
InvestmentResult(user, fundingCapacity, stagePreference, experienceBonus) ==
  InvestmentDetails(user, fundingCapacity, stagePreference, experienceBonus,
    IntMin(100, 50 + fundingCapacity + stagePreference + experienceBonus))

\* The investment score computed for every role.
calculateInvestmentScoreAnyRole(user, project) ==
  IF ~project.seekingInvestment
    THEN [score |-> I(0), details |-> Put(NoDetails, "notSeeking", I(0))]
  ELSE InvestmentResult(user,
         IF project.totalInvestmentNeeded # <<>>
           THEN FundingCapacity(user.earnings * 2, project.totalInvestmentNeeded[1])
           ELSE 0,
         IF StageTag(project.stage) \in SeqToSet(user.interests) THEN 10 ELSE 0,
         IF user.investments > 0 THEN IntMin(10, user.investments) ELSE 0)

calculateInvestmentScore(user, project) ==
  IF user.userType # "investor"
    THEN [score |-> I(0), details |-> Put(NoDetails, "notInvestor", I(0))]
  ELSE IF ~project.seekingInvestment
    THEN [score |-> I(0), details |-> Put(NoDetails, "notSeeking", I(0))]
  ELSE InvestmentResult(user,
         IF project.totalInvestmentNeeded # <<>>
           THEN FundingCapacity(user.earnings * 2, project.totalInvestmentNeeded[1])
           ELSE 0,
         IF StageTag(project.stage) \in SeqToSet(user.interests) THEN 10 ELSE 0,
         IF user.investments > 0 THEN IntMin(10, user.investments) ELSE 0)

(***************************************************************************)
(* STAGE MATCHING (15% weight)                                             *)
(***************************************************************************)
stageHierarchy(stage) ==
  CASE stage = "idea" -> 1
    [] stage = "prototype" -> 2
    [] stage = "running" -> 3
    [] stage = "scaling" -> 4
    [] OTHER -> 1

\* Stage progression matching on the two levels.
StageMatch(userLevel, projectStageLevel) ==
  IF userLevel = projectStageLevel THEN 40
  ELSE IF Abs(userLevel - projectStageLevel) = 1 THEN 25
  ELSE IF userLevel > projectStageLevel THEN 15
  ELSE IntMax(5, 20 - Abs(userLevel - projectStageLevel) * 5)

StageDetails(user, stageMatch, collaborationBonus, final) ==
  [score |-> I(final),
   details |->
     Put(PutIf(user.collaborations > 0,
               Put(NoDetails, "stageMatch", I(stageMatch)),
               "collaborationBonus", I(collaborationBonus)),
         "final", I(final))]

StageResult(user, stageMatch, collaborationBonus) ==
  StageDetails(user, stageMatch, collaborationBonus,
               IntMin(100, 50 + stageMatch + collaborationBonus))

calculateStageScore(user, project) ==
  StageResult(user,
    StageMatch(CeilHalf(user.level), stageHierarchy(project.stage)),
    IF user.collaborations > 0 THEN IntMin(10, user.collaborations) ELSE 0)

(***************************************************************************)
(* INTEREST MATCHING (15% weight)                                          *)
(***************************************************************************)
userTypeBonus(user, project) ==
  CASE user.userType = "founder" -> IF project.openForCollaboration THEN 15 ELSE 0
    [] user.userType = "freelancer" -> IF project.seekingTeam THEN 15 ELSE 0
    [] user.userType = "investor" -> IF project.seekingInvestment THEN 15 ELSE 0
    [] user.userType = "collaborator" -> IF project.openForCollaboration THEN 15 ELSE 0
    [] OTHER -> 0

\* (matchedTags / Math.max(projectTags.length, userInterests.length)) * 50
TagScore(projectTags, userInterests) ==
  Q(Len(Filter(projectTags, LAMBDA tag : tag \in SeqToSet(userInterests))) * 50,
    IntMax(Len(projectTags), Len(userInterests)))

InterestDetails(hasTags, tagScore, bonus, final) ==
  [score |-> final,
   details |-> Put(Put(PutIf(hasTags, NoDetails, "tagMatching", tagScore),
                       "userTypeBonus", I(bonus)),
                   "final", final)]

\* tagScore is 0 when the tag test did not pass.
InterestResult(hasTags, tagScore, bonus) ==
  InterestDetails(hasTags, tagScore, bonus, QMin(I(100), QAdd(I(30 + bonus), tagScore)))

InterestOf(user, project, hasTags) ==
  InterestResult(hasTags,
                 IF hasTags THEN TagScore(project.tags, user.interests) ELSE I(0),
                 userTypeBonus(user, project))

calculateInterestScore(user, project) ==
  InterestOf(user, project, Len(project.tags) > 0 /\ Len(user.interests) > 0)

(***************************************************************************)
(* ENGAGEMENT MATCHING (5% weight)                                         *)
(***************************************************************************)
EngagementDetails(activityBonus, levelBonus, final) ==
  [score |-> I(final),
   details |-> Put(Put(Put(NoDetails, "activity", I(activityBonus)),
                       "level", I(levelBonus)), "final", I(final))]

EngagementResult(activityBonus, levelBonus) ==
  EngagementDetails(activityBonus, levelBonus, IntMin(100, 50 + activityBonus + levelBonus))

\* The activity bonus also counting the views recorded in the history.
calculateEngagementScoreViews(user) ==
  EngagementResult(
    IntMin(40, (user.projectsCreated + user.collaborations + user.investments
                + Len(matchingHistory)) * 5),
    IntMin(10, (user.level - 1) * 2))

calculateEngagementScore(user) ==
  EngagementResult(
    IntMin(40, (user.projectsCreated + user.collaborations + user.investments) * 5),
    IntMin(10, (user.level - 1) * 2))

(***************************************************************************)
(* MAIN MATCHING FUNCTION                                                  *)
(***************************************************************************)
\* The match type with collaborators left to the default.
MatchTypeOfFounderOnly(user) ==
  IF user.userType = "freelancer" THEN "skill_based"
  ELSE IF user.userType = "investor" THEN "investment_based"
  ELSE IF user.userType = "founder" THEN "stage_based"
  ELSE "interest_based"

MatchTypeOf(user) ==
  IF user.userType = "freelancer" THEN "skill_based"
  ELSE IF user.userType = "investor" THEN "investment_based"
  ELSE IF user.userType = "founder" \/ user.userType = "collaborator" THEN "stage_based"
  ELSE "interest_based"

\* The weights, in hundredths.
WeightSkill == 40
WeightInvestment == 25
WeightStage == 15
WeightInterest == 15
WeightEngagement == 5

WeightedTotal(skill, investment, stage, interest, engagement) ==
  QDivInt(QAdd(QMulInt(skill, WeightSkill),
          QAdd(QMulInt(investment, WeightInvestment),
          QAdd(QMulInt(stage, WeightStage),
          QAdd(QMulInt(interest, WeightInterest),
               QMulInt(engagement, WeightEngagement))))), 100)

RecommendationOf(totalScore) ==
  IF QLeq(I(80), totalScore) THEN "Excellent match - highly recommended"
  ELSE IF QLeq(I(60), totalScore) THEN "Good match - consider this opportunity"
  ELSE IF QLeq(I(40), totalScore) THEN "Fair match - could be worth exploring"
  ELSE "Limited match - may require additional consideration"

\* db: getDb() returned a handle; readFails: a select of the skill
\* calculator throws during this call.
\* The scoreDetails object: the details of the five calculators spread in
\* order, then the six component keys.
ScoreDetails(skillScore, investmentScore, stageScore, interestScore, engagementScore, totalScore) ==
  Put(Put(Put(Put(Put(Put(
    Spread(Spread(Spread(Spread(skillScore.details, investmentScore.details),
                         stageScore.details), interestScore.details),
           engagementScore.details),
    "skillScore", skillScore.score),
    "investmentScore", investmentScore.score),
    "stageScore", stageScore.score),
    "interestScore", interestScore.score),
    "engagementScore", engagementScore.score),
    "totalScore", I(MathRound(totalScore)))

\* The MatchScore returned for the five calculator results and their
\* weighted total.
MatchScore(user, project, skillScore, investmentScore, stageScore, interestScore, engagementScore, totalScore) ==
  [userId |-> user.id,
   projectId |-> project.id,
   totalScore |-> MathRound(totalScore),
   skillScore |-> MathRound(skillScore.score),
   investmentScore |-> MathRound(investmentScore.score),
   stageScore |-> MathRound(stageScore.score),
   interestScore |-> MathRound(interestScore.score),
   engagementScore |-> MathRound(engagementScore.score),
   scoreDetails |-> ScoreDetails(skillScore, investmentScore, stageScore,
                                 interestScore, engagementScore, totalScore),
   matchType |-> MatchTypeOf(user),
   recommendation |-> RecommendationOf(totalScore)]

\* The weighted total taken over the rounded sub-scores.
CombineScoresRounded(user, project, skillScore, investmentScore, stageScore, interestScore, engagementScore) ==
  MatchScore(user, project, skillScore, investmentScore, stageScore, interestScore,
             engagementScore,
             WeightedTotal(I(MathRound(skillScore.score)), I(MathRound(investmentScore.score)),
                           I(MathRound(stageScore.score)), I(MathRound(interestScore.score)),
                           I(MathRound(engagementScore.score))))

CombineScores(user, project, skillScore, investmentScore, stageScore, interestScore, engagementScore) ==
  MatchScore(user, project, skillScore, investmentScore, stageScore, interestScore,
             engagementScore,
             WeightedTotal(skillScore.score, investmentScore.score, stageScore.score,
                           interestScore.score, engagementScore.score))

calculateMatchScore(user, project, db, readFails) ==
  CombineScores(user, project,
                calculateSkillScore(user, project, db, readFails),
                calculateInvestmentScore(user, project),
                calculateStageScore(user, project),
                calculateInterestScore(user, project),
                calculateEngagementScore(user))

(***************************************************************************)
(* BATCH MATCHING FOR RECOMMENDATIONS                                      *)
(***************************************************************************)
\* db.ts getDb(): the handle is created on first use when DATABASE_URL is
\* set and cached afterwards; without it the handle stays null.
getDb(cached) == IF cached = "null" /\ DATABASE_URL THEN "drizzle" ELSE cached

\* The .limit(100) of the candidate query.
CandidateLimit == 100

\* Array.prototype.slice(0, end) for an integer end.
Slice0(s, end) ==
  LET e == IF end < 0 THEN (IF Len(s) + end > 0 THEN Len(s) + end ELSE 0)
           ELSE (IF end < Len(s) THEN end ELSE Len(s))
  IN SubSeq(s, 1, e)

\* The comparator (a, b) => b.totalScore - a.totalScore.
CompareMatches(a, b) == b.totalScore - a.totalScore

\* A sort that is not stable: an element goes before its equals.
RECURSIVE InsertMatchUnstable(_, _)
InsertMatchUnstable(sorted, m) ==
  IF sorted = <<>> THEN <<m>>
  ELSE IF CompareMatches(Head(sorted), m) < 0
    THEN <<Head(sorted)>> \o InsertMatchUnstable(Tail(sorted), m)
    ELSE <<m>> \o sorted

\* Array.prototype.sort is stable: an element goes after every element that
\* does not compare greater than it.
RECURSIVE InsertMatch(_, _)
InsertMatch(sorted, m) ==
  IF sorted = <<>> THEN <<m>>
  ELSE IF CompareMatches(Head(sorted), m) <= 0
    THEN <<Head(sorted)>> \o InsertMatch(Tail(sorted), m)
    ELSE <<m>> \o sorted

RECURSIVE SortFrom(_, _, _)
SortFrom(matches, i, sorted) ==
  IF i > Len(matches) THEN sorted
  ELSE SortFrom(matches, i + 1, InsertMatch(sorted, matches[i]))

SortMatches(matches) == SortFrom(matches, 1, <<>>)

\* select().from(projects).where(status = "active" and seekingTeam).limit(100)
activeProjects ==
  Slice0(Filter(projects, LAMBDA p : p.status = "active" /\ p.seekingTeam = TRUE),
         CandidateLimit)

\* if (match.totalScore >= minScore) matches.push(match)
PushIfAbove(match, minScore) == IF match.totalScore >= minScore THEN <<match>> ELSE <<>>

\* The loop without the minScore test.
RECURSIVE ScoreCandidatesNoThreshold(_, _, _, _, _, _)
ScoreCandidatesNoThreshold(user, candidates, i, minScore, db, readFails) ==
  IF i > Len(candidates) THEN <<>>
  ELSE LET project == candidates[i]
           rest == ScoreCandidatesNoThreshold(user, candidates, i + 1, minScore, db, readFails)
       IN IF project.ownerId = user.id THEN rest
          ELSE <<calculateMatchScore(user, project, db, readFails)>> \o rest

\* The loop without the skip of the user's own projects.
RECURSIVE ScoreCandidatesOwn(_, _, _, _, _, _)
ScoreCandidatesOwn(user, candidates, i, minScore, db, readFails) ==
  IF i > Len(candidates) THEN <<>>
  ELSE LET match == calculateMatchScore(user, candidates[i], db, readFails)
           rest == ScoreCandidatesOwn(user, candidates, i + 1, minScore, db, readFails)
       IN IF match.totalScore >= minScore THEN <<match>> \o rest ELSE rest

\* One iteration of the loop over activeProjects: the user's own project
\* is skipped, any other is scored and pushed when it meets minScore.
ScoreCandidate(user, project, minScore, db, readFails) ==
  IF project.ownerId = user.id THEN <<>>
  ELSE PushIfAbove(calculateMatchScore(user, project, db, readFails), minScore)

\* The matches pushed by the iterations lo..hi, in candidate order.  The
\* range is halved so that a full candidate set of CandidateLimit rows is
\* evaluated at a depth of a few calls.
RECURSIVE ScoreRange(_, _, _, _, _, _, _)
ScoreRange(user, candidates, lo, hi, minScore, db, readFails) ==
  IF lo > hi THEN <<>>
  ELSE IF lo = hi THEN ScoreCandidate(user, candidates[lo], minScore, db, readFails)
  ELSE ScoreRange(user, candidates, lo, (lo + hi) \div 2, minScore, db, readFails)
       \o ScoreRange(user, candidates, (lo + hi) \div 2 + 1, hi, minScore, db, readFails)

\* The loop over activeProjects: the matches pushed, in candidate order.
ScoreCandidates(user, candidates, i, minScore, db, readFails) ==
  ScoreRange(user, candidates, i, Len(candidates), minScore, db, readFails)

\* What a call hands back: a value (a list, or null), or an exception.
Returned(list) == [value |-> list, status |-> "returned", null |-> FALSE]
ReturnedNull == [value |-> <<>>, status |-> "returned", null |-> TRUE]
Threw == [value |-> <<>>, status |-> "threw", null |-> FALSE]
Pending == [value |-> <<>>, status |-> "pending", null |-> FALSE]
NoResponse == [value |-> <<>>, status |-> "none", null |-> FALSE]

ErrFinding == "Error finding top matches:"
ErrSkill == "Error calculating skill score:"
ErrSaving == "Error saving matching history:"

\* findTopMatches raising for a user that has no row.
findTopMatchesUnknownThrows(userId, limit, minScore, fault) ==
  LET db == getDb(_db) # "null"
      userResult == Slice0(Filter(users, LAMBDA u : u.id = userId), 1)
  IN IF ~db THEN [response |-> Returned(<<>>), logged |-> {}]
     ELSE IF fault = "userFetch" THEN [response |-> Returned(<<>>), logged |-> {ErrFinding}]
     ELSE IF Len(userResult) = 0 THEN [response |-> Threw, logged |-> {}]
     ELSE IF fault = "projectFetch" THEN [response |-> Returned(<<>>), logged |-> {ErrFinding}]
     ELSE [response |->
             Returned(Slice0(SortMatches(ScoreCandidates(userResult[1], activeProjects, 1,
                                            minScore, db, fault = "skillRead")), limit)),
           logged |-> IF fault = "skillRead" THEN {ErrSkill} ELSE {}]

\* findTopMatches logging and rethrowing what its selects throw.
findTopMatchesRethrows(userId, limit, minScore, fault) ==
  LET db == getDb(_db) # "null"
      userResult == Slice0(Filter(users, LAMBDA u : u.id = userId), 1)
  IN IF ~db THEN [response |-> Returned(<<>>), logged |-> {}]
     ELSE IF fault = "userFetch" THEN [response |-> Threw, logged |-> {ErrFinding}]
     ELSE IF Len(userResult) = 0 THEN [response |-> Returned(<<>>), logged |-> {}]
     ELSE IF fault = "projectFetch" THEN [response |-> Threw, logged |-> {ErrFinding}]
     ELSE [response |->
             Returned(Slice0(SortMatches(ScoreCandidates(userResult[1], activeProjects, 1,
                                            minScore, db, fault = "skillRead")), limit)),
           logged |-> IF fault = "skillRead" THEN {ErrSkill} ELSE {}]

\* findTopMatches truncating the matches before it sorts them.
findTopMatchesTruncateFirst(userId, limit, minScore, fault) ==
  LET db == getDb(_db) # "null"
      userResult == Slice0(Filter(users, LAMBDA u : u.id = userId), 1)
  IN IF ~db THEN [response |-> Returned(<<>>), logged |-> {}]
     ELSE IF fault = "userFetch" THEN [response |-> Returned(<<>>), logged |-> {ErrFinding}]
     ELSE IF Len(userResult) = 0 THEN [response |-> Returned(<<>>), logged |-> {}]
     ELSE IF fault = "projectFetch" THEN [response |-> Returned(<<>>), logged |-> {ErrFinding}]
     ELSE [response |->
             Returned(SortMatches(Slice0(ScoreCandidates(userResult[1], activeProjects, 1,
                                            minScore, db, fault = "skillRead"), limit))),
           logged |-> IF fault = "skillRead" THEN {ErrSkill} ELSE {}]

\* The outcome of findTopMatches(userId, limit, minScore) on the current
\* store: the response and the messages logged.  fault names the select
\* that throws during the call, if any.
findTopMatches(userId, limit, minScore, fault) ==
  LET db == getDb(_db) # "null"
      userResult == Slice0(Filter(users, LAMBDA u : u.id = userId), 1)
  IN IF ~db THEN [response |-> Returned(<<>>), logged |-> {}]
     ELSE IF fault = "userFetch" THEN [response |-> Returned(<<>>), logged |-> {ErrFinding}]
     ELSE IF Len(userResult) = 0 THEN [response |-> Returned(<<>>), logged |-> {}]
     ELSE IF fault = "projectFetch" THEN [response |-> Returned(<<>>), logged |-> {ErrFinding}]
     ELSE [response |->
             Returned(Slice0(SortMatches(ScoreCandidates(userResult[1], activeProjects, 1,
                                            minScore, db, fault = "skillRead")), limit)),
           logged |-> IF fault = "skillRead" THEN {ErrSkill} ELSE {}]

(***************************************************************************)
(* SAVE MATCHING HISTORY                                                   *)
(***************************************************************************)
ActionTags == {"viewed", "applied", "invested", "dismissed", "none"}

\* The row with actionAt set for every action.
HistoryRowStamped(match, action) ==
  [userId |-> match.userId,
   projectId |-> match.projectId,
   matchType |-> match.matchType,
   score |-> match.totalScore,
   scoreDetails |-> match.scoreDetails,
   action |-> action,
   actionAt |-> TRUE]

\* The row db.insert(matchingHistory).values({...}) writes.  actionAt is
\* recorded as set or unset, the clock value being immaterial.
HistoryRow(match, action) ==
  [userId |-> match.userId,
   projectId |-> match.projectId,
   matchType |-> match.matchType,
   score |-> match.totalScore,
   scoreDetails |-> match.scoreDetails,
   action |-> action,
   actionAt |-> action # "none"]

\* saveMatchingHistory rethrowing a rejected insert.
saveMatchingHistoryRethrows(history, match, action, db, insertFails) ==
  IF ~db THEN [history |-> history, logged |-> {}, threw |-> FALSE]
  ELSE IF insertFails THEN [history |-> history, logged |-> {ErrSaving}, threw |-> TRUE]
  ELSE [history |-> Append(history, HistoryRow(match, action)), logged |-> {},
        threw |-> FALSE]

\* saveMatchingHistory updating the row of the same user and project when
\* there is one.
saveMatchingHistoryUpsert(history, match, action, db, insertFails) ==
  LET same(h) == h.userId = match.userId /\ h.projectId = match.projectId
  IN IF ~db THEN [history |-> history, logged |-> {}, threw |-> FALSE]
     ELSE IF insertFails THEN [history |-> history, logged |-> {ErrSaving}, threw |-> FALSE]
     ELSE IF \E i \in 1..Len(history) : same(history[i])
       THEN [history |-> [i \in 1..Len(history) |->
                            IF same(history[i]) THEN HistoryRow(match, action)
                            ELSE history[i]],
             logged |-> {}, threw |-> FALSE]
     ELSE [history |-> Append(history, HistoryRow(match, action)), logged |-> {},
           threw |-> FALSE]

\* The outcome of saveMatchingHistory(match, action) on the history:
\* the history afterwards, the messages logged, and whether the call
\* throws.  insertFails: the insert rejects.
saveMatchingHistory(history, match, action, db, insertFails) ==
  IF ~db THEN [history |-> history, logged |-> {}, threw |-> FALSE]
  ELSE IF insertFails THEN [history |-> history, logged |-> {ErrSaving}, threw |-> FALSE]
  ELSE [history |-> Append(history, HistoryRow(match, action)), logged |-> {},
        threw |-> FALSE]

(***************************************************************************)
(* The store.  User 3 holds a session but has no row in table users.       *)
(***************************************************************************)
UserRow(id) ==
  CASE id = 1 -> [level |-> 3, id |-> id, userType |-> "freelancer", earnings |-> 0,
                  interests |-> <<"ai", "fintech">>, investments |-> 0,
                  collaborations |-> 2, projectsCreated |-> 0]
    [] id = 2 -> [level |-> 5, id |-> id, userType |-> "investor", earnings |-> 500000,
                  interests |-> <<"stage_idea", "ai">>, investments |-> 2,
                  collaborations |-> 0, projectsCreated |-> 0]
    [] OTHER  -> [level |-> 1, id |-> id, userType |-> "founder", earnings |-> 0,
                  interests |-> <<>>, investments |-> 0,
                  collaborations |-> 0, projectsCreated |-> 1]

InitialUsers == <<UserRow(1), UserRow(2)>>

InitialUserSkills ==
  <<[proficiency |-> "advanced", yearsOfExperience |-> 5, skillId |-> 7, userId |-> 1],
    [proficiency |-> "beginner", yearsOfExperience |-> 1, skillId |-> 8, userId |-> 3]>>

ProjectKinds == {"A", "B", "C", "D", "E"}

\* The projects row of kind k inserted with autoincrement id.
ProjectRow(id, k) ==
  CASE k = "A" -> [id |-> id, ownerId |-> 2, stage |-> "prototype", status |-> "active",
                   seekingTeam |-> TRUE, seekingInvestment |-> FALSE,
                   openForCollaboration |-> FALSE, tags |-> <<"ai">>,
                   totalInvestmentNeeded |-> <<>>]
    [] k = "B" -> [id |-> id, ownerId |-> 1, stage |-> "idea", status |-> "active",
                   seekingTeam |-> TRUE, seekingInvestment |-> TRUE,
                   openForCollaboration |-> TRUE, tags |-> <<"fintech", "ai">>,
                   totalInvestmentNeeded |-> <<1500000>>]
    [] k = "C" -> [id |-> id, ownerId |-> 3, stage |-> "running", status |-> "active",
                   seekingTeam |-> TRUE, seekingInvestment |-> TRUE,
                   openForCollaboration |-> TRUE, tags |-> <<"fintech">>,
                   totalInvestmentNeeded |-> <<>>]
    [] k = "D" -> [id |-> id, ownerId |-> 3, stage |-> "scaling", status |-> "draft",
                   seekingTeam |-> TRUE, seekingInvestment |-> FALSE,
                   openForCollaboration |-> FALSE, tags |-> <<"ai", "fintech">>,
                   totalInvestmentNeeded |-> <<>>]
    [] k = "F" -> [id |-> id, ownerId |-> 3, stage |-> "prototype", status |-> "active",
                   seekingTeam |-> FALSE, seekingInvestment |-> TRUE,
                   openForCollaboration |-> FALSE, tags |-> <<"ai", "ai">>,
                   totalInvestmentNeeded |-> <<100100>>]
    [] OTHER  -> [id |-> id, ownerId |-> 3, stage |-> "idea", status |-> "active",
                   seekingTeam |-> FALSE, seekingInvestment |-> TRUE,
                   openForCollaboration |-> FALSE, tags |-> <<"ai">>,
                   totalInvestmentNeeded |-> <<100000>>]

\* The projectTeamRequirements rows of a project of kind k.
RequirementRows(id, k) ==
  CASE k = "A" -> <<[projectId |-> id, skillId |-> 7, minProficiency |-> "intermediate",
                     minYearsExperience |-> 2]>>
    [] k = "C" -> <<[projectId |-> id, skillId |-> 8, minProficiency |-> "advanced",
                     minYearsExperience |-> 3],
                    [projectId |-> id, skillId |-> 7, minProficiency |-> "expert",
                     minYearsExperience |-> 8]>>
    [] k = "D" -> <<[projectId |-> id, skillId |-> 7, minProficiency |-> "beginner",
                     minYearsExperience |-> 0]>>
    [] OTHER -> <<>>

KindSeqs(kinds, n) == UNION {[1..m -> kinds] : m \in 0..n}

RECURSIVE AllRequirementRows(_, _)
AllRequirementRows(ks, i) ==
  IF i > Len(ks) THEN <<>>
  ELSE RequirementRows(i, ks[i]) \o AllRequirementRows(ks, i + 1)

\* An object without properties.
EmptyObject == [k \in {} |-> 0]

\* No middleware has handled a request.
NoExchange == [handler |-> "none"]

\* withTransaction has not been called.
NoRun == [phase |-> "none"]

\* The middleware and the transaction helper after module load:
\* rateLimitStores = {}, no exchange, no transaction.
InitServer ==
  /\ rateLimitStores = EmptyObject
  /\ now = 0
  /\ windows = EmptyObject
  /\ http = NoExchange
  /\ tx = NoRun

\* The state after construction, for a store holding the projects ks.
InitStore(ks) ==
  /\ users = InitialUsers
  /\ userSkills = InitialUserSkills
  /\ projects = [i \in 1..Len(ks) |-> ProjectRow(i, ks[i])]
  /\ projectTeamRequirements = AllRequirementRows(ks, 1)
  /\ matchingHistory = <<>>
  /\ _db = "null"
  /\ pc = "idle"
  /\ req = [op |-> "none"]
  /\ res = NoResponse
  /\ console = {}
  /\ InitServer

(***************************************************************************)
(* Operations.  Requests are served one at a time; the only await that is  *)
(* left open between two steps is the history insert of calculateScore.    *)
(***************************************************************************)
Faults == {"userFetch", "projectFetch", "skillRead", "none"}

\* A select can only throw where the call performs it.
FaultPossible(userId, fault) ==
  LET db == getDb(_db) # "null"
      stored == \E i \in 1..Len(users) : users[i].id = userId
  IN CASE fault = "none" -> TRUE
       [] fault = "userFetch" -> db
       [] fault = "projectFetch" -> db /\ stored
       [] OTHER -> db /\ stored /\ \E i \in 1..Len(activeProjects) :
                                      activeProjects[i].ownerId # userId

\* The caller receives the response and the console the messages.
Deliver(outcome) ==
  /\ res' = outcome.response
  /\ console' = outcome.logged

\* findTopMatches recording its first match in the history as it returns.
FindTopMatchesRecording(userId, limit, minScore, fault) ==
  /\ pc = "idle"
  /\ FaultPossible(userId, fault)
  /\ _db' = getDb(_db)
  /\ req' = [op |-> "findTopMatches", userId |-> userId, limit |-> limit,
             minScore |-> minScore, fault |-> fault]
  /\ Deliver(findTopMatches(userId, limit, minScore, fault))
  /\ matchingHistory' =
       IF Len(res'.value) > 0 /\ Len(matchingHistory) < MaxHistory
         THEN Append(matchingHistory, HistoryRow(res'.value[1], "none"))
         ELSE matchingHistory
  /\ UNCHANGED <<serverVars, storeVars, pc>>

\* A call findTopMatches(userId, limit, minScore).
FindTopMatches(userId, limit, minScore, fault) ==
  /\ pc = "idle"
  /\ FaultPossible(userId, fault)
  /\ _db' = getDb(_db)
  /\ req' = [op |-> "findTopMatches", userId |-> userId, limit |-> limit,
             minScore |-> minScore, fault |-> fault]
  /\ Deliver(findTopMatches(userId, limit, minScore, fault))
  /\ UNCHANGED <<serverVars, storeVars, matchingHistory, pc>>

\* matching.getRecommendations: the input schema is
\* z.object({ limit: z.number().default(10), minScore: z.number().default(40) }).
GetRecommendations(ctxUser, limit, minScore, fault) ==
  FindTopMatches(ctxUser.id, limit, minScore, fault)

\* The select without its where clause.
ProjectByIdFirst(projectId) == Slice0(projects, 1)

\* select().from(projects).where(eq(projects.id, projectId)).limit(1)
ProjectById(projectId) == Slice0(Filter(projects, LAMBDA p : p.id = projectId), 1)

\* matching.calculateScore answering before the history insert settles.
CalculateScoreDetached(ctxUser, projectId, fault) ==
  LET db == getDb(_db) # "null"
      project == ProjectById(projectId)
      request == [op |-> "calculateScore", user |-> ctxUser, userId |-> ctxUser.id,
                  projectId |-> projectId, fault |-> fault, match |-> <<>>]
      match == calculateMatchScore(ctxUser, project[1], db, fault = "skillRead")
  IN /\ pc = "idle"
     /\ fault # "userFetch"
     /\ fault = "projectFetch" => db
     /\ fault = "skillRead" => db /\ Len(project) > 0
     /\ _db' = getDb(_db)
     /\ IF ~db THEN
          /\ req' = request /\ res' = ReturnedNull /\ pc' = "idle" /\ console' = {}
        ELSE IF fault = "projectFetch" THEN
          /\ req' = request /\ res' = Threw /\ pc' = "idle" /\ console' = {}
        ELSE IF Len(project) = 0 THEN
          /\ req' = request /\ res' = ReturnedNull /\ pc' = "idle" /\ console' = {}
        ELSE
          /\ req' = [request EXCEPT !.match = <<match>>]
          /\ res' = Returned(<<match>>)
          /\ pc' = "saving"
          /\ console' = IF fault = "skillRead" THEN {ErrSkill} ELSE {}
     /\ UNCHANGED <<serverVars, storeVars, matchingHistory>>

\* matching.calculateScore up to the awaited history insert.
CalculateScore(ctxUser, projectId, fault) ==
  LET db == getDb(_db) # "null"
      project == ProjectById(projectId)
      request == [op |-> "calculateScore", user |-> ctxUser, userId |-> ctxUser.id,
                  projectId |-> projectId, fault |-> fault, match |-> <<>>]
  IN /\ pc = "idle"
     /\ fault # "userFetch"
     /\ fault = "projectFetch" => db
     /\ fault = "skillRead" => db /\ Len(project) > 0
     /\ _db' = getDb(_db)
     /\ IF ~db THEN
          /\ req' = request /\ res' = ReturnedNull /\ pc' = "idle" /\ console' = {}
        ELSE IF fault = "projectFetch" THEN
          /\ req' = request /\ res' = Threw /\ pc' = "idle" /\ console' = {}
        ELSE IF Len(project) = 0 THEN
          /\ req' = request /\ res' = ReturnedNull /\ pc' = "idle" /\ console' = {}
        ELSE
          /\ req' = [request EXCEPT !.match =
                       <<calculateMatchScore(ctxUser, project[1], db, fault = "skillRead")>>]
          /\ res' = Pending
          /\ pc' = "saving"
          /\ console' = IF fault = "skillRead" THEN {ErrSkill} ELSE {}
     /\ UNCHANGED <<serverVars, storeVars, matchingHistory>>

\* The awaited insert of saveMatchingHistory(match, "viewed") resolves.
HistoryInsertResolves ==
  LET saved == saveMatchingHistory(matchingHistory, req.match[1], "viewed",
                                   getDb(_db) # "null", FALSE)
  IN /\ pc = "saving"
     /\ Len(matchingHistory) < MaxHistory
     /\ matchingHistory' = saved.history
     /\ console' = console \cup saved.logged
     /\ res' = IF saved.threw THEN Threw ELSE Returned(req.match)
     /\ pc' = "idle"
     /\ UNCHANGED <<serverVars, storeVars, _db, req>>

\* The awaited insert rejects: saveMatchingHistory logs and returns.
HistoryInsertRejects ==
  LET saved == saveMatchingHistory(matchingHistory, req.match[1], "viewed",
                                   getDb(_db) # "null", TRUE)
  IN /\ pc = "saving"
     /\ matchingHistory' = saved.history
     /\ console' = console \cup saved.logged
     /\ res' = IF saved.threw THEN Threw ELSE Returned(req.match)
     /\ pc' = "idle"
     /\ UNCHANGED <<serverVars, storeVars, _db, req>>

\* A direct call saveMatchingHistory(match, action) on a match surfaced by
\* findTopMatches.
SaveMatchingHistory(match, action, insertFails) ==
  LET saved == saveMatchingHistory(matchingHistory, match, action,
                                   getDb(_db) # "null", insertFails)
  IN /\ pc = "idle"
     /\ req.op = "findTopMatches"
     /\ insertFails => getDb(_db) # "null"
     /\ insertFails \/ Len(matchingHistory) < MaxHistory
     /\ _db' = getDb(_db)
     /\ matchingHistory' = saved.history
     /\ console' = saved.logged
     /\ req' = [op |-> "saveMatchingHistory", match |-> <<match>>, action |-> action]
     /\ res' = IF saved.threw THEN Threw ELSE Returned(<<>>)
     /\ UNCHANGED <<serverVars, storeVars, pc>>

(***************************************************************************)
(* Specifications.                                                         *)
(***************************************************************************)
\* Limits and thresholds a caller can send through z.number().
Limits == {-1, 0, 1, 10}
MinScores == {0, 40, 101}
UserIds == {1, 2, 3}

\* The recommendation finder alone, over every store of the catalogue.
InitFinder ==
  /\ DATABASE_URL \in BOOLEAN
  /\ \E ks \in KindSeqs(ProjectKinds, MaxProjects) : InitStore(ks)

FinderFaults == {"userFetch", "projectFetch", "none"}

NextFinder ==
  \E userId \in UserIds, limit \in Limits, minScore \in MinScores,
     fault \in FinderFaults :
    FindTopMatches(userId, limit, minScore, fault)

SpecFinder == InitFinder /\ [][NextFinder]_vars

\* The matching router and the history recorder.
EngineStores == {<<>>, <<"A">>, <<"A", "D">>}
EngineProjectIds == {1, 2, 3}
EngineUserIds == {1, 3}
EngineFaults == {"userFetch", "projectFetch", "none"}
ClientLimits == {10}
ClientMinScores == {40}

Init ==
  /\ DATABASE_URL \in BOOLEAN
  /\ \E ks \in EngineStores : InitStore(ks)

Next ==
  \/ \E id \in EngineUserIds, limit \in ClientLimits, minScore \in ClientMinScores,
        fault \in EngineFaults :
       GetRecommendations(UserRow(id), limit, minScore, fault)
  \/ \E id \in EngineUserIds, projectId \in EngineProjectIds,
        fault \in EngineFaults :
       CalculateScore(UserRow(id), projectId, fault)
  \/ HistoryInsertResolves
  \/ HistoryInsertRejects
  \/ \E i \in 1..Len(res.value), action \in ActionTags, insertFails \in BOOLEAN :
       SaveMatchingHistory(res.value[i], action, insertFails)

Spec == Init /\ [][Next]_vars

(***************************************************************************)
(* Properties of the recommendation finder, checked under SpecFinder.      *)
(***************************************************************************)
Finding == req.op = "findTopMatches"

\* The row position of a project in table projects, 0 when it has no row.
RowOf(projectId) ==
  IF \E i \in 1..Len(projects) : projects[i].id = projectId
    THEN CHOOSE i \in 1..Len(projects) : projects[i].id = projectId
    ELSE 0

\* The candidates findTopMatches may surface for a user: active, seeking a
\* team and not the user's own.
Eligible(userId) ==
  {i \in 1..Len(projects) : /\ projects[i].status = "active"
                            /\ projects[i].seekingTeam
                            /\ projects[i].ownerId # userId}

Stored(userId) == \E i \in 1..Len(users) : users[i].id = userId

\* C1: the list findTopMatches returns is in descending order of totalScore,
\* and entries of equal totalScore keep the order in which their projects
\* were found in the candidate set.
C1_RankedStable ==
  (Finding /\ res.status = "returned") =>
    \A i \in 1..Len(res.value) : \A j \in 1..Len(res.value) :
      i < j =>
        /\ res.value[i].totalScore >= res.value[j].totalScore
        /\ res.value[i].totalScore = res.value[j].totalScore =>
             RowOf(res.value[i].projectId) < RowOf(res.value[j].projectId)

\* Two candidates tie and both are returned.
C1_Witness ==
  /\ Finding /\ res.status = "returned"
  /\ Len(res.value) >= 2
  /\ res.value[1].totalScore = res.value[2].totalScore

\* C2: every entry findTopMatches returns has totalScore >= minScore, and a
\* call with minScore = 101 returns the empty list.
C2_Threshold ==
  (Finding /\ res.status = "returned") =>
    /\ \A i \in 1..Len(res.value) : res.value[i].totalScore >= req.minScore
    /\ req.minScore = 101 => res.value = <<>>

\* A call with minScore 40 returns one match and leaves out another
\* candidate of the same user.
C2_Witness ==
  /\ Finding /\ res.status = "returned"
  /\ req.minScore = 40
  /\ req.limit = 10
  /\ Len(res.value) = 1
  /\ Cardinality(Eligible(req.userId)) = 2

\* C3: the list findTopMatches(u, ...) returns has no entry whose project is
\* owned by u.
C3_NotOwn ==
  (Finding /\ res.status = "returned") =>
    \A i \in 1..Len(res.value) : \A j \in 1..Len(projects) :
      projects[j].id = res.value[i].projectId => projects[j].ownerId # req.userId

\* The user owns an active project that seeks a team, and gets a match for
\* another project.
C3_Witness ==
  /\ Finding /\ res.status = "returned"
  /\ Len(res.value) >= 1
  /\ \E j \in 1..Len(projects) :
       /\ projects[j].ownerId = req.userId
       /\ projects[j].status = "active"
       /\ projects[j].seekingTeam

\* C4: findTopMatches returns at most limit entries for every limit, a
\* negative limit letting through no more than a limit of zero.
C4_AtMostLimit ==
  (Finding /\ res.status = "returned") =>
    Len(res.value) <= (IF req.limit < 0 THEN 0 ELSE req.limit)

\* C5: findTopMatches for a user without a row, or with no candidate
\* project in the store, returns the empty list and raises nothing.
C5_EmptyNotError ==
  (Finding /\ (~Stored(req.userId) \/ Eligible(req.userId) = {})) =>
    res = Returned(<<>>)

\* An unknown user asks while the database is up and holds candidates.
C5_Witness ==
  /\ Finding
  /\ _db # "null"
  /\ req.fault = "none"
  /\ ~Stored(req.userId)
  /\ Eligible(req.userId) # {}
  /\ res = Returned(<<>>)

FetchFails == Finding /\ (req.fault = "userFetch" \/ req.fault = "projectFetch")

\* C6 as stated: a failed fetch of the user or of the candidates ends
\* findTopMatches in an error propagated to the caller.
C6_FetchFailurePropagates == FetchFails => res.status = "threw"

\* C6: a failed fetch of the user or of the candidates is caught and
\* logged by findTopMatches, which returns the empty list.
C6_FetchFailureSwallowed ==
  FetchFails => (res = Returned(<<>>) /\ ErrFinding \in console)

\* The candidate fetch fails for a stored user who has a candidate.
C6_Witness ==
  /\ Finding
  /\ req.fault = "projectFetch"
  /\ Stored(req.userId)
  /\ Eligible(req.userId) # {}
  /\ res = Returned(<<>>)

(***************************************************************************)
(* Properties of the matching router and the history recorder, checked     *)
(* under Spec.                                                             *)
(***************************************************************************)
\* The calculateScore handler has run to its end.
Scored == req.op = "calculateScore" /\ pc = "idle"

HasProject(projectId) == \E i \in 1..Len(projects) : projects[i].id = projectId

\* C7 as stated: calculateScore returns null whenever the project or the
\* user has no row in the store, and a MatchScore only when both have one.
C7_NullWhenEitherAbsent ==
  (Scored /\ req.fault = "none") =>
    /\ (~HasProject(req.projectId) \/ ~Stored(req.userId)) => res = ReturnedNull
    /\ (res.status = "returned" /\ ~res.null) =>
         (HasProject(req.projectId) /\ Stored(req.userId))

\* C7: unless the project fetch itself fails, calculateScore returns null
\* exactly when the database is unavailable or the project has no row, and
\* otherwise the MatchScore of the session user and that project, whether
\* or not the user has a row in the store.
C7_NullIffProjectAbsent ==
  (Scored /\ req.fault # "projectFetch") =>
    /\ res.status = "returned"
    /\ res.null <=> (_db = "null" \/ ~HasProject(req.projectId))
    /\ ~res.null =>
         /\ Len(res.value) = 1
         /\ res.value[1].userId = req.userId
         /\ res.value[1].projectId = req.projectId

\* A session user without a row in the store gets a MatchScore.
C7_Witness ==
  /\ Scored
  /\ ~Stored(req.userId)
  /\ HasProject(req.projectId)
  /\ res.status = "returned"
  /\ ~res.null

\* C8: when the history insert of calculateScore fails, the operation still
\* returns the MatchScore it computed, unchanged, and raises nothing.
C8_HistoryFailureHidden ==
  (Scored /\ ErrSaving \in console) =>
    /\ res = Returned(req.match)
    /\ \E i \in 1..Len(projects) :
         /\ projects[i].id = req.projectId
         /\ req.match = <<calculateMatchScore(req.user, projects[i], TRUE,
                                               req.fault = "skillRead")>>

\* The insert of a calculateScore request was rejected and the match was
\* returned.
C8_Witness ==
  /\ Scored
  /\ ErrSaving \in console
  /\ res.status = "returned"
  /\ Len(res.value) = 1

\* A step that hands the response to the caller while the history insert
\* is still in flight.
RespondWhileSaving == Next /\ pc' = "saving" /\ res'.status = "returned"

\* C9 as stated: while the history insert is in flight the MatchScore has
\* been delivered, or can be delivered without the insert settling.
C9_ResponseDetached ==
  pc = "saving" => (res.status = "returned" \/ ENABLED RespondWhileSaving)

\* C9: calculateScore awaits the history write: while the insert is in
\* flight no response has been delivered, and a delivered MatchScore means
\* the insert has settled.
C9_ResponseAwaitsWrite ==
  /\ pc = "saving" => res = Pending
  /\ (req.op = "calculateScore" /\ res.status = "returned" /\ ~res.null) => pc = "idle"

\* The history insert of a calculateScore request is in flight.
C9_Witness == pc = "saving" /\ req.op = "calculateScore" /\ req.match # <<>>

\* C10: the match history is append-only: a step leaves it unchanged or
\* adds one row at its end.
C10_AppendOnly ==
  [][\/ matchingHistory' = matchingHistory
     \/ /\ Len(matchingHistory') = Len(matchingHistory) + 1
        /\ SubSeq(matchingHistory', 1, Len(matchingHistory)) = matchingHistory]_vars

\* A second row for the same user and project was added after the first.
C10_Witness ==
  /\ Len(matchingHistory) >= 2
  /\ matchingHistory[1].userId = matchingHistory[2].userId
  /\ matchingHistory[1].projectId = matchingHistory[2].projectId
  /\ matchingHistory[1].action # matchingHistory[2].action

(***************************************************************************)
(* The scoring of one user against one project through                     *)
(* matching.calculateScore, over a catalogue of user, skill, project and   *)
(* requirement rows.  The int columns are signed and unconstrained, so the *)
(* catalogue holds rows with negative counts, levels and years.            *)
(***************************************************************************)
ProfileIds == 1..7

\* The kinds of project scored: those of the store and one with a repeated
\* tag and an investment need of 1001.00.
ScoredProjectKinds == ProjectKinds \cup {"F"}

\* A users row.  Row 5 carries a userType outside the four enum values.
ProfileRow(k) ==
  CASE k = 1 -> [level |-> 3, id |-> k, userType |-> "freelancer", earnings |-> 0,
                 interests |-> <<"ai", "fintech">>, investments |-> 0,
                 collaborations |-> 3, projectsCreated |-> 0]
    [] k = 2 -> UserRow(k)
    [] k = 3 -> UserRow(k)
    [] k = 4 -> [level |-> -30, id |-> k, userType |-> "collaborator", earnings |-> 0,
                 interests |-> <<"ai">>, investments |-> 0,
                 collaborations |-> -3, projectsCreated |-> -20]
    [] k = 5 -> [level |-> 10, id |-> k, userType |-> "", earnings |-> 0,
                 interests |-> <<"ai", "fintech", "health">>, investments |-> 3,
                 collaborations |-> 12, projectsCreated |-> 9]
    [] k = 7 -> [level |-> 2, id |-> k, userType |-> "investor", earnings |-> 10010,
                 interests |-> <<"ai">>, investments |-> 1,
                 collaborations |-> 0, projectsCreated |-> 0]
    [] OTHER -> [level |-> 4, id |-> k, userType |-> "investor", earnings |-> 90000000,
                 interests |-> <<"stage_prototype", "ai">>, investments |-> 12,
                 collaborations |-> 10, projectsCreated |-> 2]

SkillKinds == 0..3

\* The userSkills rows of a user: none, one skill, two skills, one skill
\* with negative years.
SkillRows(userId, s) ==
  CASE s = 1 -> <<[proficiency |-> "advanced", yearsOfExperience |-> 5, skillId |-> 7,
                   userId |-> userId]>>
    [] s = 2 -> <<[proficiency |-> "expert", yearsOfExperience |-> 10, skillId |-> 7,
                   userId |-> userId],
                  [proficiency |-> "intermediate", yearsOfExperience |-> 3, skillId |-> 8,
                   userId |-> userId]>>
    [] s = 3 -> <<[proficiency |-> "beginner", yearsOfExperience |-> -2, skillId |-> 7,
                   userId |-> userId]>>
    [] OTHER -> <<>>

RequirementKinds == 0..4

\* The projectTeamRequirements rows of a project: none, one, two, one
\* without minimum, three.
TeamRequirementRows(id, r) ==
  CASE r = 1 -> <<[projectId |-> id, skillId |-> 7, minProficiency |-> "intermediate",
                   minYearsExperience |-> 2]>>
    [] r = 2 -> <<[projectId |-> id, skillId |-> 8, minProficiency |-> "advanced",
                   minYearsExperience |-> 3],
                  [projectId |-> id, skillId |-> 7, minProficiency |-> "expert",
                   minYearsExperience |-> 8]>>
    [] r = 3 -> <<[projectId |-> id, skillId |-> 7, minProficiency |-> "beginner",
                   minYearsExperience |-> 0]>>
    [] r = 4 -> <<[projectId |-> id, skillId |-> 7, minProficiency |-> "intermediate",
                   minYearsExperience |-> 2],
                  [projectId |-> id, skillId |-> 8, minProficiency |-> "beginner",
                   minYearsExperience |-> 0],
                  [projectId |-> id, skillId |-> 9, minProficiency |-> "expert",
                   minYearsExperience |-> 1]>>
    [] OTHER -> <<>>

\* The state after construction, for a store holding one user with the
\* skills s and one project of kind p with the requirements r.
InitScoreStore(k, s, p, r) ==
  /\ users = <<ProfileRow(k)>>
  /\ userSkills = SkillRows(k, s)
  /\ projects = <<ProjectRow(1, p)>>
  /\ projectTeamRequirements = TeamRequirementRows(1, r)
  /\ matchingHistory = <<>>
  /\ _db = "null"
  /\ pc = "idle"
  /\ req = [op |-> "none"]
  /\ res = NoResponse
  /\ console = {}
  /\ InitServer

InitScore ==
  /\ DATABASE_URL = TRUE
  /\ \E k \in ProfileIds, s \in SkillKinds, p \in ScoredProjectKinds, r \in RequirementKinds :
       InitScoreStore(k, s, p, r)

ScoreFaults == {"skillRead", "none"}

NextScore ==
  \/ \E fault \in ScoreFaults : CalculateScore(users[1], 1, fault)
  \/ HistoryInsertResolves
  \/ HistoryInsertRejects

SpecScore == InitScore /\ [][NextScore]_vars

(***************************************************************************)
(* Properties of the MatchScore computed by matching.calculateScore,       *)
(* checked under SpecScore.                                                *)
(***************************************************************************)
\* The request being served has computed a MatchScore.
HasMatch == req.op = "calculateScore" /\ req.match # <<>>

InRange(x) == x >= 0 /\ x <= 100

\* C11: each of the five sub-scores and the total score of a MatchScore
\* lies in [0, 100], whatever the user and project rows hold.
C11_ScoresInRange ==
  HasMatch =>
    /\ InRange(req.match[1].totalScore)
    /\ InRange(req.match[1].skillScore)
    /\ InRange(req.match[1].investmentScore)
    /\ InRange(req.match[1].stageScore)
    /\ InRange(req.match[1].interestScore)
    /\ InRange(req.match[1].engagementScore)

\* round(0.40 s + 0.25 i + 0.15 g + 0.15 t + 0.05 e) on five rationals.
RoundWeighted(s, i, g, t, e) ==
  MathRound(QDivInt(QAdd(QMulInt(s, 40), QAdd(QMulInt(i, 25), QAdd(QMulInt(g, 15),
              QAdd(QMulInt(t, 15), QMulInt(e, 5))))), 100))

\* The total recomputed from the five sub-scores the MatchScore carries.
CarriedTotal(m) ==
  RoundWeighted(I(m.skillScore), I(m.investmentScore), I(m.stageScore),
                I(m.interestScore), I(m.engagementScore))

\* The total recomputed from the five calculator scores as scoreDetails
\* records them, before rounding.
UnroundedTotal(m) ==
  RoundWeighted(m.scoreDetails["skillScore"], m.scoreDetails["investmentScore"],
                m.scoreDetails["stageScore"], m.scoreDetails["interestScore"],
                m.scoreDetails["engagementScore"])

\* C12 as stated: totalScore is the rounded weighted sum of the five
\* sub-scores carried in the same MatchScore, clamped to [0, 100].
C12_TotalOfCarriedScores ==
  HasMatch => req.match[1].totalScore = IntMax(0, IntMin(100, CarriedTotal(req.match[1])))

\* C12: totalScore is the rounded weighted sum of the five calculator
\* scores before they are rounded; the five carried sub-scores are the
\* roundings of those same scores, and no clamp is applied to the total.
C12_TotalOfUnroundedScores ==
  HasMatch =>
    /\ req.match[1].totalScore = UnroundedTotal(req.match[1])
    /\ req.match[1].scoreDetails["totalScore"] = I(req.match[1].totalScore)
    /\ req.match[1].skillScore = MathRound(req.match[1].scoreDetails["skillScore"])
    /\ req.match[1].investmentScore = MathRound(req.match[1].scoreDetails["investmentScore"])
    /\ req.match[1].stageScore = MathRound(req.match[1].scoreDetails["stageScore"])
    /\ req.match[1].interestScore = MathRound(req.match[1].scoreDetails["interestScore"])
    /\ req.match[1].engagementScore = MathRound(req.match[1].scoreDetails["engagementScore"])

\* A MatchScore whose total differs from the one its carried sub-scores give.
C12_Witness ==
  /\ HasMatch
  /\ req.match[1].skillScore # 0
  /\ req.match[1].totalScore # CarriedTotal(req.match[1])

\* The message of the tier a total selects.
TierOf(totalScore) ==
  IF totalScore >= 80 THEN "Excellent match - highly recommended"
  ELSE IF totalScore >= 60 THEN "Good match - consider this opportunity"
  ELSE IF totalScore >= 40 THEN "Fair match - could be worth exploring"
  ELSE "Limited match - may require additional consideration"

\* C13: the recommendation text of a MatchScore is the tier selected by
\* its totalScore field: Excellent from 80, Good from 60, Fair from 40,
\* Limited below 40.
C13_TierOfTotalField ==
  HasMatch => req.match[1].recommendation = TierOf(req.match[1].totalScore)

\* A calculateScore call made right after the response of an earlier one:
\* SpecScore leaves the users, projects, userSkills and
\* projectTeamRequirements rows as they are, and the only caller and
\* project are users[1] and project 1.
SecondCall ==
  /\ pc = "idle"
  /\ HasMatch
  /\ res.status = "returned"
  /\ pc' = "saving"

\* C14 (as stated): two calculateScore calls for the same user and project
\* with unchanged user, project, skill and requirement rows return
\* identical MatchScores, although the first call appended a history row.
C14_SecondCallIdentical ==
  [][SecondCall => req'.match = res.value]_vars

\* C14 (amended): the two MatchScores are identical when the skill and
\* requirement reads of calculateSkillScore end alike in both calls (both
\* succeed or both fail); the history row appended in between has no
\* influence.
C14_SecondCallIdenticalSameReads ==
  [][(SecondCall /\ req'.fault = req.fault) => req'.match = res.value]_vars

\* A second call is being answered after the first one appended its row,
\* and its MatchScore is the one the history row was written from.
C14_Witness ==
  /\ pc = "saving"
  /\ req.fault = "none"
  /\ Len(matchingHistory) >= 1
  /\ matchingHistory[Len(matchingHistory)] = HistoryRow(req.match[1], "viewed")

\* The merged map holds every key of a calculator's details with that
\* calculator's value.
KeepsDetails(merged, calculated) ==
  \A k \in DOMAIN calculated.details : merged[k] = calculated.details[k]

\* C15: the scoreDetails of a MatchScore keeps, for each of the five
\* calculators and each key of its details, the value that calculator
\* produced: no key of a later calculator replaces the same key of an
\* earlier one.
C15_DetailsKept ==
  HasMatch =>
    /\ KeepsDetails(req.match[1].scoreDetails,
                    calculateSkillScore(req.user, projects[1], TRUE, req.fault = "skillRead"))
    /\ KeepsDetails(req.match[1].scoreDetails, calculateInvestmentScore(req.user, projects[1]))
    /\ KeepsDetails(req.match[1].scoreDetails, calculateStageScore(req.user, projects[1]))
    /\ KeepsDetails(req.match[1].scoreDetails, calculateInterestScore(req.user, projects[1]))
    /\ KeepsDetails(req.match[1].scoreDetails, calculateEngagementScore(req.user))

\* The marker calculateInvestmentScore leaves when it does not apply.
InvestmentMarker(user) ==
  IF user.userType # "investor" THEN "notInvestor" ELSE "notSeeking"

\* The four sub-scores other than investment are the roundings of their
\* own calculators' scores.
OtherFourComputed(m, user, project, readFails) ==
  /\ m.skillScore = MathRound(calculateSkillScore(user, project, TRUE, readFails).score)
  /\ m.stageScore = MathRound(calculateStageScore(user, project).score)
  /\ m.interestScore = MathRound(calculateInterestScore(user, project).score)
  /\ m.engagementScore = MathRound(calculateEngagementScore(user).score)

\* C16: when the user is not an investor, or the project is not seeking
\* investment, a MatchScore is still produced; its investment sub-score is
\* 0, its details carry the marker (notInvestor for a non-investor,
\* notSeeking for an investor on a project not seeking investment), and
\* the other four sub-scores are those of their calculators.
C16_InvestmentNotApplicable ==
  (HasMatch /\ (req.user.userType # "investor" \/ ~projects[1].seekingInvestment)) =>
    /\ res.status # "threw"
    /\ req.match[1].investmentScore = 0
    /\ req.match[1].scoreDetails["investmentScore"] = I(0)
    /\ InvestmentMarker(req.user) \in DOMAIN req.match[1].scoreDetails
    /\ req.match[1].scoreDetails[InvestmentMarker(req.user)] = I(0)
    /\ ~("fundingCapacity" \in DOMAIN req.match[1].scoreDetails)
    /\ OtherFourComputed(req.match[1], req.user, projects[1], req.fault = "skillRead")

\* A non-investor has been scored against a project seeking investment,
\* with a skill score above zero.
C16_Witness ==
  /\ HasMatch
  /\ req.user.userType # "investor"
  /\ projects[1].seekingInvestment
  /\ "notInvestor" \in DOMAIN req.match[1].scoreDetails
  /\ req.match[1].skillScore > 0
  /\ res.status = "returned"

\* The project scored has no team requirement rows.
NoRequirements == Len(projectTeamRequirements) = 0

\* The user scored has no skill rows.
NoSkills == Len(userSkills) = 0

\* C17 (as stated): for every user and every project with zero team
\* requirements the skill sub-score is 50 and the details flag the
\* missing requirements.
C17_NeutralWithoutRequirements ==
  (HasMatch /\ NoRequirements) =>
    /\ req.match[1].skillScore = 50
    /\ "noRequirements" \in DOMAIN req.match[1].scoreDetails

\* C17 (amended): for every user with at least one skill and every
\* project with zero team requirements, when both reads succeed, the skill
\* sub-score is 50 and the details hold noRequirements = 50.
C17_NeutralForSkilledUser ==
  (HasMatch /\ NoRequirements /\ ~NoSkills /\ req.fault = "none") =>
    /\ req.match[1].skillScore = 50
    /\ req.match[1].scoreDetails["skillScore"] = I(50)
    /\ "noRequirements" \in DOMAIN req.match[1].scoreDetails
    /\ req.match[1].scoreDetails["noRequirements"] = I(50)

\* A user holding skills has been scored against a project without
\* requirements.
C17_Witness ==
  /\ HasMatch
  /\ NoRequirements
  /\ ~NoSkills
  /\ req.fault = "none"
  /\ req.match[1].skillScore = 50

\* The keys calculateSkillScore can put in its details.
SkillDetailKey(k) ==
  \/ k = "coverage"
  \/ k = "noRequirements"
  \/ \E id \in 7..9 : k = SkillKey(id)

\* C18: for every user without skill rows and every project, whatever its
\* requirements, the skill sub-score is 0 and the skill calculator adds
\* nothing to the details.
C18_ZeroWithoutSkills ==
  (HasMatch /\ NoSkills) =>
    /\ req.match[1].skillScore = 0
    /\ req.match[1].scoreDetails["skillScore"] = I(0)
    /\ calculateSkillScore(req.user, projects[1], TRUE, req.fault = "skillRead").details
         = NoDetails
    /\ \A k \in DOMAIN req.match[1].scoreDetails : ~SkillDetailKey(k)

\* A user without skills has been scored against a project that has no
\* requirements, with both reads succeeding.
C18_Witness ==
  /\ HasMatch
  /\ NoSkills
  /\ NoRequirements
  /\ req.fault = "none"
  /\ req.match[1].skillScore = 0

\* The user's only skill is {7, advanced, 5 years} and the project's only
\* requirement is {7, intermediate, 2 years}.
Scenario1 ==
  /\ Len(userSkills) = 1
  /\ userSkills[1].userId = req.user.id
  /\ userSkills[1].skillId = 7
  /\ userSkills[1].proficiency = "advanced"
  /\ userSkills[1].yearsOfExperience = 5
  /\ Len(projectTeamRequirements) = 1
  /\ projectTeamRequirements[1].projectId = 1
  /\ projectTeamRequirements[1].skillId = 7
  /\ projectTeamRequirements[1].minProficiency = "intermediate"
  /\ projectTeamRequirements[1].minYearsExperience = 2

\* C19 (as stated): in that scenario the skill sub-score is 100.
C19_ScenarioScores100 ==
  (HasMatch /\ Scenario1 /\ req.fault = "none") => req.match[1].skillScore = 100

\* C19 (amended): in that scenario the requirement scores 40 + 31.5, the
\* coverage is 100 and adds 10, so the skill score is 81.5 and the skill
\* sub-score 82.
C19_ScenarioScores82 ==
  (HasMatch /\ Scenario1 /\ req.fault = "none") =>
    /\ req.match[1].scoreDetails[SkillKey(7)] = Q(143, 2)
    /\ req.match[1].scoreDetails["coverage"] = I(100)
    /\ req.match[1].scoreDetails["skillScore"] = Q(163, 2)
    /\ req.match[1].skillScore = 82

\* The scenario has been scored with both reads succeeding.
C19_Witness ==
  /\ HasMatch
  /\ Scenario1
  /\ req.fault = "none"
  /\ req.match[1].skillScore = 82

\* The match type the role stands for.
RoleMatchType(userType) ==
  CASE userType = "freelancer" -> "skill_based"
    [] userType = "investor" -> "investment_based"
    [] userType = "founder" -> "stage_based"
    [] userType = "collaborator" -> "stage_based"
    [] OTHER -> "interest_based"

\* C20: the match type of a MatchScore is the one of the user's role
\* (freelancer: skill_based, investor: investment_based, founder and
\* collaborator: stage_based, any other value: interest_based), whatever
\* the scores are.
C20_MatchTypeOfRole ==
  HasMatch => req.match[1].matchType = RoleMatchType(req.user.userType)

\* A collaborator whose highest sub-score is not the stage score has been
\* given stage_based.
C20_Witness ==
  /\ HasMatch
  /\ req.user.userType = "collaborator"
  /\ req.match[1].matchType = "stage_based"
  /\ req.match[1].skillScore > req.match[1].stageScore

(***************************************************************************)
(* Side effects of the matching operations, under Spec.                    *)
(***************************************************************************)
\* The step is a findTopMatches call, or the calculateMatchScore part of a
\* calculateScore call (up to the await of saveMatchingHistory).
ScoringStep ==
  \/ req'.op = "findTopMatches"
  \/ pc = "idle" /\ req'.op = "calculateScore"

\* The step is the insert of a saveMatchingHistory call: the one
\* calculateScore awaits, or one made by the caller on a returned match.
SavingStep ==
  \/ pc = "saving"
  \/ req'.op = "saveMatchingHistory"

\* C21: findTopMatches and calculateMatchScore write nothing: no step
\* changes the users, projects, userSkills or projectTeamRequirements rows,
\* a scoring step leaves matchingHistory as it is, and matchingHistory
\* changes only in a saveMatchingHistory step.
C21_NoWriteSideEffect ==
  [][/\ storeVars' = storeVars
     /\ ScoringStep => matchingHistory' = matchingHistory
     /\ matchingHistory' # matchingHistory => SavingStep]_vars

\* findTopMatches has returned matches while the history already holds a
\* row, and the row count is what the saves made it.
C21_Witness ==
  /\ req.op = "findTopMatches"
  /\ res.status = "returned"
  /\ Len(res.value) >= 1
  /\ Len(matchingHistory) >= 1

\* The history row carries the fields of the MatchScore and the action.
RowOfMatch(row, match, action) ==
  /\ row.userId = match.userId
  /\ row.projectId = match.projectId
  /\ row.matchType = match.matchType
  /\ row.scoreDetails = match.scoreDetails
  /\ row.score = match.totalScore
  /\ row.action = action
  /\ row.actionAt = (action # "none")

\* The history grew by exactly one row, the one of the match and action.
AppendedOne(match, action) ==
  /\ Len(matchingHistory') = Len(matchingHistory) + 1
  /\ SubSeq(matchingHistory', 1, Len(matchingHistory)) = matchingHistory
  /\ RowOfMatch(matchingHistory'[Len(matchingHistory')], match, action)

\* The insert of the step was performed and did not reject.
InsertSucceeded == _db' # "null" /\ ~(ErrSaving \in console')

\* C22: a saveMatchingHistory call whose insert succeeds appends exactly
\* one row: userId, projectId, matchType and scoreDetails of the MatchScore,
\* score = its totalScore, action = the given tag, actionAt set iff the
\* action is not none.
C22_SaveAppendsOneRow ==
  [][/\ (req'.op = "saveMatchingHistory" /\ InsertSucceeded)
          => AppendedOne(req'.match[1], req'.action)
     /\ (pc = "saving" /\ InsertSucceeded)
          => AppendedOne(req.match[1], "viewed")]_vars

\* A row saved with action none sits in the history without a timestamp,
\* after a row saved with another action.
C22_Witness ==
  /\ req.op = "saveMatchingHistory"
  /\ req.action = "none"
  /\ Len(matchingHistory) = 2
  /\ matchingHistory[2].action = "none"
  /\ ~matchingHistory[2].actionAt
  /\ matchingHistory[1].actionAt

(***************************************************************************)
(* The candidate policy and the order of sorting and truncating.           *)
(***************************************************************************)
\* The totalScore calculateMatchScore gives the requesting user on the
\* project in row i.
ScoreOfRow(i) ==
  calculateMatchScore(users[CHOOSE u \in 1..Len(users) : users[u].id = req.userId],
                      projects[i], TRUE, req.fault = "skillRead").totalScore

Surfaced(i) == \E e \in 1..Len(res.value) : res.value[e].projectId = projects[i].id

\* Every returned entry is for a project that is active and seeking a team.
OnlyCandidatePolicy ==
  \A e \in 1..Len(res.value) :
    /\ RowOf(res.value[e].projectId) # 0
    /\ projects[RowOf(res.value[e].projectId)].status = "active"
    /\ projects[RowOf(res.value[e].projectId)].seekingTeam

\* The project in row i, when it meets minScore and is left out, scores no
\* higher than any entry returned.
NotOutrankedBy(i, score) ==
  (score >= req.minScore /\ ~Surfaced(i)) =>
    \A e \in 1..Len(res.value) : res.value[e].totalScore >= score

NotOutranked(i) == NotOutrankedBy(i, ScoreOfRow(i))

\* A store holding one row more than the candidate query returns: the first
\* CandidateLimit active rows seeking a team are projects of user 1 (kind B)
\* and one of kind C, the row after them is of kind A.
FullStoreKinds ==
  [i \in 1..(CandidateLimit + 1) |->
     IF i < CandidateLimit THEN "B" ELSE IF i = CandidateLimit THEN "C" ELSE "A"]

\* The finder over the stores of the catalogue and over the full store.
\* The state after construction for the full store, user 1 being its only
\* user.
InitFullStore ==
  /\ users = <<UserRow(1)>>
  /\ userSkills = InitialUserSkills
  /\ projects = [i \in 1..Len(FullStoreKinds) |-> ProjectRow(i, FullStoreKinds[i])]
  /\ projectTeamRequirements = RequirementRows(CandidateLimit, "C")
                               \o RequirementRows(CandidateLimit + 1, "A")
  /\ matchingHistory = <<>>
  /\ _db = "null"
  /\ pc = "idle"
  /\ req = [op |-> "none"]
  /\ res = NoResponse
  /\ console = {}
  /\ InitServer

InitFinderFull ==
  \/ InitFinder
  \/ DATABASE_URL = TRUE /\ InitFullStore

SpecFinderFull == InitFinderFull /\ [][NextFinder]_vars

\* C23 (as stated): every returned entry is for an active project seeking a
\* team, and no active project seeking a team, not owned by the user and
\* scored >= minScore is left out while an entry of strictly lower
\* totalScore is returned.
C23_BestOfAllCandidates ==
  (Finding /\ res.status = "returned" /\ Len(res.value) > 0) =>
    /\ OnlyCandidatePolicy
    /\ \A i \in Eligible(req.userId) : NotOutranked(i)

\* The rows of projects the candidate query returns: the first
\* CandidateLimit active rows seeking a team.
Fetched(i) ==
  /\ projects[i].status = "active"
  /\ projects[i].seekingTeam
  /\ Cardinality({j \in 1..i : projects[j].status = "active" /\ projects[j].seekingTeam})
       <= CandidateLimit

\* C23 (amended): every returned entry is for an active project seeking a
\* team, and no project among the at most 100 rows the candidate query
\* returns that is not owned by the user and scored >= minScore is left out
\* while an entry of strictly lower totalScore is returned.
C23_BestOfFetchedCandidates ==
  (Finding /\ res.status = "returned" /\ Len(res.value) > 0) =>
    /\ OnlyCandidatePolicy
    /\ \A i \in Eligible(req.userId) : Fetched(i) => NotOutranked(i)

\* Two candidates were scored in ascending order of totalScore and the
\* limit kept only the higher one.
C23_Witness ==
  /\ Finding /\ res.status = "returned"
  /\ req.limit = 1
  /\ Len(res.value) = 1
  /\ Len(projects) = 2
  /\ RowOf(res.value[1].projectId) = 2
  /\ Eligible(req.userId) = {1, 2}
  /\ ScoreOfRow(1) >= req.minScore
  /\ ScoreOfRow(1) < ScoreOfRow(2)

(***************************************************************************)
(* The calculators' formulas, under SpecScore.  userSkills holds the rows  *)
(* of the user scored and projectTeamRequirements those of the project.    *)
(***************************************************************************)
\* The user has a skill for requirement r.
HasSkillFor(r) == \E j \in 1..Len(userSkills) : userSkills[j].skillId = r.skillId

\* The first skill row of the user for requirement r.
SkillFor(r) ==
  userSkills[CHOOSE j \in 1..Len(userSkills) :
               /\ userSkills[j].skillId = r.skillId
               /\ \A h \in 1..(j - 1) : userSkills[h].skillId # r.skillId]

\* Proficiency component: 30 plus 10 per tier of surplus, otherwise
\* max(0, 20 - 10 x deficit).
ProficiencyComponent(tier, required) ==
  IF tier >= required THEN 30 + 10 * (tier - required)
  ELSE IntMax(0, 20 - 10 * (required - tier))

\* Experience component: 30 plus min(10, surplus / 2), otherwise
\* max(0, 15 - 5 x deficit).
ExperienceComponent(years, required) ==
  IF years >= required THEN QAdd(I(30), QMin(I(10), Q(years - required, 2)))
  ELSE I(IntMax(0, 15 - 5 * (required - years)))

RequirementScore(skill, r) ==
  QAdd(I(ProficiencyComponent(proficiencyLevels(skill.proficiency),
                              proficiencyLevels(r.minProficiency))),
       ExperienceComponent(skill.yearsOfExperience, r.minYearsExperience))

MatchedRequirements ==
  {i \in 1..Len(projectTeamRequirements) : HasSkillFor(projectTeamRequirements[i])}

\* The sum of the requirement scores over the matched requirements from
\* position i on.
RECURSIVE SumOfMatched(_)
SumOfMatched(i) ==
  IF i > Len(projectTeamRequirements) THEN I(0)
  ELSE IF i \in MatchedRequirements
    THEN QAdd(RequirementScore(SkillFor(projectTeamRequirements[i]),
                               projectTeamRequirements[i]),
              SumOfMatched(i + 1))
  ELSE SumOfMatched(i + 1)

\* A: the average over the matched requirements, 0 when nothing matches.
AverageOfMatched ==
  IF MatchedRequirements = {} THEN I(0)
  ELSE QDivInt(SumOfMatched(1), Cardinality(MatchedRequirements))

\* C: 10 above 70% of the requirements matched, 5 above 40%, else 0.
CoverageCredit ==
  IF 100 * Cardinality(MatchedRequirements) > 70 * Len(projectTeamRequirements) THEN 10
  ELSE IF 100 * Cardinality(MatchedRequirements) > 40 * Len(projectTeamRequirements) THEN 5
  ELSE 0

\* C24: for a user with at least one skill and a project with at least one
\* team requirement, the skill score is min(100, A + C), A the average of
\* the matched requirements' scores and C the coverage bonus; the skill
\* sub-score is its rounding.
C24_SkillFormula ==
  (HasMatch /\ ~NoSkills /\ ~NoRequirements /\ req.fault = "none") =>
    /\ req.match[1].scoreDetails["skillScore"]
         = QMin(I(100), QAdd(AverageOfMatched, I(CoverageCredit)))
    /\ req.match[1].skillScore
         = MathRound(QMin(I(100), QAdd(AverageOfMatched, I(CoverageCredit))))

\* A project of three requirements has been scored for a user matching two
\* of them.
C24_Witness ==
  /\ HasMatch
  /\ req.fault = "none"
  /\ Len(projectTeamRequirements) = 3
  /\ Cardinality(MatchedRequirements) = 2
  /\ req.match[1].skillScore > 0

(***************************************************************************)
(* The investment sub-score of an investor on a project seeking            *)
(* investment, as the sum of its stated parts.  Amounts are in cents.      *)
(***************************************************************************)
\* F: 30 when twice the earnings cover the need, 20 when they cover half of
\* it, 10 when they cover a fifth of it, else 0; 0 when no need is recorded.
StatedFunding(earnings, needed) ==
  IF needed = <<>> THEN 0
  ELSE IF 2 * earnings >= needed[1] THEN 30
  ELSE IF 2 * (2 * earnings) >= needed[1] THEN 20
  ELSE IF 5 * (2 * earnings) >= needed[1] THEN 10
  ELSE 0

\* S: 10 exactly when the interest tags hold the tag of the project's stage.
StatedStagePreference(user, project) ==
  IF StageTag(project.stage) \in SeqToSet(user.interests) THEN 10 ELSE 0

StatedInvestmentScore(user, project) ==
  IntMin(100, 50 + StatedFunding(user.earnings, project.totalInvestmentNeeded)
                 + StatedStagePreference(user, project)
                 + IntMin(10, user.investments))

InvestorOnSeeking ==
  HasMatch /\ req.user.userType = "investor" /\ projects[1].seekingInvestment

\* C25: for every investor and every project seeking investment, the
\* investment sub-score is min(100, 50 + F + S + min(10, investment count)).
C25_InvestmentFormula ==
  InvestorOnSeeking =>
    req.match[1].investmentScore = StatedInvestmentScore(req.user, projects[1])

\* The same formula over the investors whose capacity is not exactly a
\* fifth of the need.
C25_FormulaOffTheFifth ==
  (InvestorOnSeeking /\ (projects[1].totalInvestmentNeeded = <<>>
                         \/ 10 * req.user.earnings # projects[1].totalInvestmentNeeded[1])) =>
    req.match[1].investmentScore = StatedInvestmentScore(req.user, projects[1])

\* An investor with a funding bonus has been scored.
C25_Reached ==
  /\ InvestorOnSeeking
  /\ projects[1].totalInvestmentNeeded # <<>>
  /\ req.match[1].investmentScore > 60

(***************************************************************************)
(* The interest sub-score as stated: the tag overlap counted on the sets   *)
(* of tags.                                                                *)
(***************************************************************************)
StatedTagOverlap(projectTags, userInterests) ==
  Q(50 * Cardinality(SeqToSet(projectTags) \cap SeqToSet(userInterests)),
    IntMax(Len(projectTags), Len(userInterests)))

StatedInterestScore(user, project) ==
  QMin(I(100), QAdd(I(30 + userTypeBonus(user, project)),
                    StatedTagOverlap(project.tags, user.interests)))

BothTagged == HasMatch /\ Len(projects[1].tags) > 0 /\ Len(req.user.interests) > 0

\* C26: when the user's and the project's tag lists are both non-empty,
\* repeated tags included, the tag-overlap part is 50 x |intersection of the
\* tag sets| / max(number of project tags, number of user tags) and the
\* interest sub-score is min(100, 30 + that part + role-alignment bonus).
C26_InterestFormula ==
  BothTagged =>
    /\ req.match[1].scoreDetails["interestScore"] = StatedInterestScore(req.user, projects[1])
    /\ req.match[1].interestScore = MathRound(StatedInterestScore(req.user, projects[1]))

\* The same formula over the projects whose tag list has no repeated tag.
C26_FormulaWithoutRepeats ==
  (BothTagged /\ Cardinality(SeqToSet(projects[1].tags)) = Len(projects[1].tags)) =>
    /\ req.match[1].scoreDetails["interestScore"] = StatedInterestScore(req.user, projects[1])
    /\ req.match[1].interestScore = MathRound(StatedInterestScore(req.user, projects[1]))

(***************************************************************************)
(* The MatchScore of a call whose skill calculator could not read.         *)
(***************************************************************************)
\* The weighted total of a zero skill score and the other four calculators.
TotalWithoutSkill(user, project) ==
  WeightedTotal(I(0), calculateInvestmentScore(user, project).score,
                calculateStageScore(user, project).score,
                calculateInterestScore(user, project).score,
                calculateEngagementScore(user).score)

\* m has a zero skill sub-score and no skill details; its other four
\* sub-scores, total, match type and recommendation are those computed
\* from the user and the project.
SkillAbsorbed(m, user, project) ==
  /\ m.skillScore = 0
  /\ m.scoreDetails["skillScore"] = I(0)
  /\ \A k \in DOMAIN m.scoreDetails : ~SkillDetailKey(k)
  /\ m.investmentScore = MathRound(calculateInvestmentScore(user, project).score)
  /\ m.stageScore = MathRound(calculateStageScore(user, project).score)
  /\ m.interestScore = MathRound(calculateInterestScore(user, project).score)
  /\ m.engagementScore = MathRound(calculateEngagementScore(user).score)
  /\ m.totalScore = MathRound(TotalWithoutSkill(user, project))
  /\ m.matchType = RoleMatchType(user.userType)
  /\ m.recommendation = RecommendationOf(TotalWithoutSkill(user, project))

\* C27: a failure of the skill or requirement read during
\* calculateMatchScore, or a null database handle, raises no error: the
\* call yields a MatchScore with skill sub-score 0 and no skill details,
\* and with the other four sub-scores, the total, the match type and the
\* recommendation computed.
C27_SkillReadFailureAbsorbed ==
  /\ (HasMatch /\ req.fault = "skillRead") =>
        /\ res.status # "threw"
        /\ SkillAbsorbed(req.match[1], req.user, projects[1])
  /\ HasMatch =>
        SkillAbsorbed(calculateMatchScore(req.user, projects[1], FALSE, FALSE),
                      req.user, projects[1])

\* A user holding skills has been scored against a project with
\* requirements while the read failed, and the result was returned.
C27_Witness ==
  /\ HasMatch
  /\ req.fault = "skillRead"
  /\ ~NoSkills
  /\ ~NoRequirements
  /\ res.status = "returned"
  /\ req.match[1].totalScore > 0
  /\ ErrSkill \in console

(***************************************************************************)
(* RATE LIMITING MIDDLEWARE (securityHeaders.ts).  Date.now() is counted   *)
(* in ms from the start of the process.                                    *)
(***************************************************************************)
\* The variables of the matching engine, which no middleware touches.
engineVars == <<storeVars, _db, matchingHistory, pc, req, res, console>>

\* Two limiters, each created by createRateLimiter(RateLimitPresets.AUTH);
\* both work on rateLimitStores["global"].
Limiters == {"first", "second"}

\* RateLimitPresets.AUTH
AuthWindowMs == 15 * 60 * 1000
AuthMaxRequests == 5

\* The config the limiter was created with.
WindowMsOf(limiter) == AuthWindowMs
MaxRequestsOf(limiter) == AuthMaxRequests

\* The latest instant of the clock.
MaxClock == 900001

RequestIds == 1..3

\* An incoming request: the authenticated user (<<>> when there is none),
\* the x-forwarded-for header split at its commas (<<>> when absent) and
\* the address of the socket.
ClientRequest(i) ==
  CASE i = 1 -> [user |-> <<i>>, forwardedFor |-> <<>>, remoteAddress |-> "10.0.0.9"]
    [] i = 2 -> [user |-> <<>>, forwardedFor |-> <<"10.0.0.2", "10.0.0.1">>,
                 remoteAddress |-> "10.0.0.9"]
    [] OTHER -> [user |-> <<0>>, forwardedFor |-> <<"">>, remoteAddress |-> "10.0.0.2"]

\* x-forwarded-for?.split(",")[0] || req.socket.remoteAddress || "unknown"
ClientIp(request) ==
  IF request.forwardedFor # <<>> /\ request.forwardedFor[1] # "" THEN request.forwardedFor[1]
  ELSE IF request.remoteAddress # "" THEN request.remoteAddress
  ELSE "unknown"

getClientKey(request) ==
  IF request.user # <<>> /\ request.user[1] # 0 THEN "user:" \o ToString(request.user[1])
  ELSE "ip:" \o ClientIp(request)

\* rateLimitStores[storeKey], {} when the store was never created.
StoreOf(stores, storeKey) ==
  IF storeKey \in DOMAIN stores THEN stores[storeKey] ELSE EmptyObject

\* The window of key is to be opened: it has no record, or its record has
\* expired.
Expired(store, key, clock) ==
  \/ key \notin DOMAIN store
  \/ clock > store[key].resetTime

\* The store after the "initialize" and "reset if window expired" steps.
Opened(store, key, clock, windowMs) ==
  IF Expired(store, key, clock)
    THEN Put(store, key, [count |-> 0, resetTime |-> clock + windowMs])
    ELSE store

\* The limit test letting one more request through.
LimitedAbove(store, key, maxRequests) == store[key].count > maxRequests

\* store[key].count >= maxRequests
Limited(store, key, maxRequests) == store[key].count >= maxRequests

\* store[key].count++
Counted(store, key) == [store EXCEPT ![key].count = @ + 1]

\* The store the handler leaves.
Handled(store, key, maxRequests) ==
  IF Limited(store, key, maxRequests) THEN store ELSE Counted(store, key)

\* The three X-RateLimit headers.
RateLimitHeaders(maxRequests, record) ==
  Put(Put(Put(EmptyObject, "X-RateLimit-Limit", maxRequests),
          "X-RateLimit-Remaining", IntMax(0, maxRequests - record.count)),
      "X-RateLimit-Reset", record.resetTime)

\* The exchange: res.status(429).json(...) without next(), or the headers
\* and next().
Exchange(preset, key, store, limited) ==
  [handler |-> "rateLimiter", limiter |-> preset, clientKey |-> key,
   sent |-> IF limited THEN <<429>> ELSE <<>>,
   headers |-> IF limited THEN EmptyObject
               ELSE RateLimitHeaders(MaxRequestsOf(preset), store[key]),
   nextCalls |-> IF limited THEN 0 ELSE 1]

NoPasses == [l \in Limiters |-> 0]

\* The record of the windows: for each key the resetTime of the last window
\* opened and, per limiter, the requests passed to next() in it.
WindowOpened(log, key, opened, resetTime) ==
  IF opened THEN Put(log, key, [until |-> resetTime, passes |-> NoPasses]) ELSE log

WindowPassed(log, key, preset, passed) ==
  IF passed THEN [log EXCEPT ![key].passes[preset] = @ + 1] ELSE log

\* The middleware of limiter preset on a request of client key, store being
\* the global store once the window of key is open.
RateLimiterOn(preset, key, store, opens) ==
  /\ rateLimitStores' = Put(rateLimitStores, "global",
                            Handled(store, key, MaxRequestsOf(preset)))
  /\ http' = Exchange(preset, key, Handled(store, key, MaxRequestsOf(preset)),
                      Limited(store, key, MaxRequestsOf(preset)))
  /\ windows' = WindowPassed(WindowOpened(windows, key, opens, store[key].resetTime),
                             key, preset, ~Limited(store, key, MaxRequestsOf(preset)))
  /\ UNCHANGED <<engineVars, now, tx>>

RateLimiter(preset, request) ==
  RateLimiterOn(preset, getClientKey(request),
                Opened(StoreOf(rateLimitStores, "global"), getClientKey(request),
                       now, WindowMsOf(preset)),
                Expired(StoreOf(rateLimitStores, "global"), getClientKey(request), now))

\* A store without its expired records.
Swept(store, clock) ==
  [k \in {key \in DOMAIN store : ~(clock > store[key].resetTime)} |-> store[k]]

\* The interval callback of startRateLimitCleanup.
RateLimitCleanup ==
  /\ rateLimitStores' = [storeKey \in DOMAIN rateLimitStores |->
                           Swept(rateLimitStores[storeKey], now)]
  /\ UNCHANGED <<engineVars, now, windows, http, tx>>

\* The instants at which a window ends, and the ms after each.
InstantsOf(store) ==
  UNION {{store[key].resetTime, store[key].resetTime + 1} : key \in DOMAIN store}

Instants == UNION {InstantsOf(rateLimitStores[storeKey]) : storeKey \in DOMAIN rateLimitStores}

\* Time passes up to one of these instants.
Tick(t) ==
  /\ t > now
  /\ t <= MaxClock
  /\ now' = t
  /\ UNCHANGED <<engineVars, rateLimitStores, windows, http, tx>>

InitLimiter ==
  /\ DATABASE_URL = FALSE
  /\ InitStore(<<>>)

NextLimiter ==
  \/ \E preset \in Limiters, i \in RequestIds : RateLimiter(preset, ClientRequest(i))
  \/ RateLimitCleanup
  \/ \E t \in Instants : Tick(t)

SpecLimiter == InitLimiter /\ [][NextLimiter]_vars

(***************************************************************************)
(* Properties of one rate limiter, checked under SpecLimiter.              *)
(***************************************************************************)
GlobalStore == StoreOf(rateLimitStores, "global")

\* The window of key is running: its record is in the store and the clock
\* has not passed its resetTime.
InWindow(key) == key \in DOMAIN GlobalStore /\ ~(now > GlobalStore[key].resetTime)

\* This step is the limiter handling a request of key.
LimiterStep(limiter, key) ==
  \E i \in RequestIds :
    getClientKey(ClientRequest(i)) = key /\ RateLimiter(limiter, ClientRequest(i))

\* Between two resets no limiter has passed more than its maxRequests.
AtMostMaxPassed ==
  \A key \in DOMAIN windows, limiter \in Limiters :
    windows[key].passes[limiter] <= MaxRequestsOf(limiter)

\* A request arriving in a window in which the limiter has passed its
\* maxRequests is answered 429, without next() and without counting.
FurtherRequestsRejected ==
  \A key \in DOMAIN windows, limiter \in Limiters :
    (/\ LimiterStep(limiter, key)
     /\ InWindow(key)
     /\ windows[key].passes[limiter] = MaxRequestsOf(limiter)) =>
       /\ http'.sent = <<429>>
       /\ http'.nextCalls = 0
       /\ GlobalStore'[key].count = GlobalStore[key].count
       /\ GlobalStore'[key].resetTime = GlobalStore[key].resetTime

\* The store holds, after the step, a window of key that is not the one it
\* held before.
Restarts(key) ==
  /\ key \in DOMAIN GlobalStore'
  /\ \/ key \notin DOMAIN GlobalStore
     \/ GlobalStore'[key].resetTime # GlobalStore[key].resetTime
     \/ GlobalStore'[key].count < GlobalStore[key].count

\* The count of a key that had a window restarts only on a request of that
\* key arriving strictly after the window's resetTime; it restarts at 0,
\* plus the request itself when it is passed.
RestartOnlyAfterReset ==
  \A key \in DOMAIN windows :
    Restarts(key) =>
      /\ now > windows[key].until
      /\ \E limiter \in Limiters : LimiterStep(limiter, key)
      /\ GlobalStore'[key].count = http'.nextCalls

\* C28: for a limiter created by createRateLimiter and any client key,
\* between two resets of the key's window at most maxRequests requests are
\* passed to next(); every further request in the window is answered 429
\* without next() and without incrementing the count; the count restarts
\* at 0 only on a request arriving strictly after the window's resetTime.
C28_WindowBoundsPasses ==
  /\ []AtMostMaxPassed
  /\ [][FurtherRequestsRejected /\ RestartOnlyAfterReset]_vars

\* After its first window a key has had its count restarted, has been
\* passed maxRequests times by one limiter and has then been answered 429.
C28_Witness ==
  \E key \in DOMAIN GlobalStore :
    /\ GlobalStore[key].resetTime > AuthWindowMs
    /\ GlobalStore[key].count = AuthMaxRequests
    /\ windows[key].passes["first"] = AuthMaxRequests
    /\ http.handler = "rateLimiter"
    /\ http.clientKey = key
    /\ http.sent = <<429>>
    /\ http.nextCalls = 0

(***************************************************************************)
(* DATABASE TRANSACTION HELPERS: withTransaction.  A callback is a script:  *)
(* the context methods it awaits, in order, and the way it ends; calls     *)
(* counts those it has awaited.  A statement handed to db.execute succeeds *)
(* or rejects with an Error; a callback does not catch the rejection of a  *)
(* context method it awaits.                                               *)
(***************************************************************************)
\* What withTransaction leaves alone.
outsideTx == <<storeVars, matchingHistory, pc, req, res, rateLimitStores, now, windows, http>>

ContextMethods == {"commit", "rollback"}

\* The longest script of context calls.
MaxCalls == 2

Scripts == UNION {[1..n -> ContextMethods] : n \in 0..MaxCalls}

Endings == {"returns", "throwsTRPCError", "throwsError", "throwsValue"}

ErrRollback == "[Transaction] Rollback failed:"
ErrTransaction == "[Transaction] Error:"

\* The statement a context method executes.
StatementOf(method) == IF method = "commit" THEN "COMMIT" ELSE "ROLLBACK"

\* await db.execute(sql), rejected when fails.
Executed(run, sql, fails) ==
  [run EXCEPT !.statements = Append(@, [sql |-> sql, rejected |-> fails])]

\* The run entering the catch block with the error caught.
Caught(run, error) == [run EXCEPT !.phase = "catching", !.error = error]

\* withTransaction is called: getDb(), then the throw for a null handle.
WithTransaction(script, ending) ==
  /\ tx.phase \in {"none", "done"}
  /\ _db' = getDb(_db)
  /\ console' = {}
  /\ tx' = [phase |-> IF getDb(_db) = "null" THEN "done" ELSE "starting",
            script |-> script, calls |-> 0, ending |-> ending, callback |-> "notCalled",
            statements |-> <<>>, error |-> "none",
            outcome |-> IF getDb(_db) = "null" THEN "throwsDatabaseNotAvailable"
                        ELSE "pending"]
  /\ UNCHANGED outsideTx

\* await db.execute("START TRANSACTION")
StartTransaction(fails) ==
  /\ tx.phase = "starting"
  /\ tx' = IF fails THEN Caught(Executed(tx, "START TRANSACTION", fails), "Error")
           ELSE [Executed(tx, "START TRANSACTION", fails) EXCEPT
                   !.phase = "callback", !.callback = "running"]
  /\ UNCHANGED <<outsideTx, _db, console>>

\* The callback awaits context.commit() or context.rollback().
CallbackCalls(fails) ==
  /\ tx.phase = "callback"
  /\ tx.calls < Len(tx.script)
  /\ tx' = IF fails
             THEN [Caught(Executed(tx, StatementOf(tx.script[tx.calls + 1]), fails), "Error")
                     EXCEPT !.callback = "failed"]
             ELSE [Executed(tx, StatementOf(tx.script[tx.calls + 1]), fails)
                     EXCEPT !.calls = @ + 1]
  /\ UNCHANGED <<outsideTx, _db, console>>

\* The callback returns its result or throws.
CallbackEnds ==
  /\ tx.phase = "callback"
  /\ tx.calls = Len(tx.script)
  /\ tx' = IF tx.ending = "returns"
             THEN [tx EXCEPT !.phase = "committing", !.callback = "succeeded"]
             ELSE [Caught(tx, tx.ending) EXCEPT !.callback = "failed"]
  /\ UNCHANGED <<outsideTx, _db, console>>

\* await db.execute("COMMIT"), then return result.
CommitTransaction(fails) ==
  /\ tx.phase = "committing"
  /\ tx' = IF fails THEN Caught(Executed(tx, "COMMIT", fails), "Error")
           ELSE [Executed(tx, "COMMIT", fails) EXCEPT !.phase = "done", !.outcome = "returns"]
  /\ UNCHANGED <<outsideTx, _db, console>>

\* What the catch block throws for the error it caught.
Rethrown(error) ==
  CASE error = "throwsTRPCError" -> "throwsOriginalTRPCError"
    [] error \in {"Error", "throwsError"} -> "throwsDatabaseOperationFailed"
    [] OTHER -> "throwsUnknownDatabaseError"

\* The catch block: ROLLBACK, its failure logged, then the re-throw.
RollbackTransaction(fails) ==
  /\ tx.phase = "catching"
  /\ tx' = [Executed(tx, "ROLLBACK", fails) EXCEPT
              !.phase = "done", !.outcome = Rethrown(tx.error)]
  /\ console' = (IF fails THEN {ErrRollback} ELSE {})
                  \cup (IF tx.error \in {"Error", "throwsError"} THEN {ErrTransaction} ELSE {})
  /\ UNCHANGED <<outsideTx, _db>>

InitTransaction ==
  /\ DATABASE_URL \in BOOLEAN
  /\ InitStore(<<>>)

NextTransaction ==
  \/ \E script \in Scripts, ending \in Endings : WithTransaction(script, ending)
  \/ \E fails \in BOOLEAN : StartTransaction(fails)
  \/ \E fails \in BOOLEAN : CallbackCalls(fails)
  \/ CallbackEnds
  \/ \E fails \in BOOLEAN : CommitTransaction(fails)
  \/ \E fails \in BOOLEAN : RollbackTransaction(fails)

SpecTransaction == InitTransaction /\ [][NextTransaction]_vars

(***************************************************************************)
(* Properties of withTransaction, checked under SpecTransaction.           *)
(***************************************************************************)
\* The run is over and its START TRANSACTION was accepted.
EndedStarted ==
  /\ tx.phase = "done"
  /\ tx.statements # <<>>
  /\ ~tx.statements[1].rejected

\* The number of sql statements the run handed to db.execute.
Issued(sql) == Cardinality({i \in 1..Len(tx.statements) : tx.statements[i].sql = sql})

\* C29: a run of withTransaction that has started a transaction ends it
\* with exactly one terminating statement: one COMMIT and no ROLLBACK when
\* the callback succeeds, one ROLLBACK and no COMMIT when it fails.
C29_OneTerminatingStatement ==
  EndedStarted =>
    /\ tx.callback = "succeeded" => Issued("COMMIT") = 1 /\ Issued("ROLLBACK") = 0
    /\ tx.callback = "failed" => Issued("ROLLBACK") = 1 /\ Issued("COMMIT") = 0

\* The callback used no context method and no COMMIT was rejected.
PlainRun ==
  /\ tx.script = <<>>
  /\ \A i \in 1..Len(tx.statements) :
       tx.statements[i].sql = "COMMIT" => ~tx.statements[i].rejected

\* The same over the runs whose callback leaves the context alone and whose
\* COMMIT is accepted.
C29_PlainRunsTerminateOnce ==
  (EndedStarted /\ PlainRun) =>
    /\ tx.callback = "succeeded" => Issued("COMMIT") = 1 /\ Issued("ROLLBACK") = 0
    /\ tx.callback = "failed" => Issued("ROLLBACK") = 1 /\ Issued("COMMIT") = 0

(***************************************************************************)
(* preventParameterPollution (securityHeaders.ts).  req.url is its path    *)
(* and the texts that follow each "?"; a text is the sequence of the       *)
(* parameter names that "&" separates in it.  The text after a second "?"  *)
(* starts inside the value of the last parameter before it, so its names   *)
(* are those that follow its first "&".                                    *)
(***************************************************************************)
ParamNames == {"a", "b", "c"}

\* The largest number of parameters in one text.
MaxParams == 3

QueryTexts == UNION {[1..n -> ParamNames] : n \in 0..MaxParams}

\* The urls received: no "?", one "?", and a second "?" before "&a=...".
Urls ==
  {<<>>} \cup {<<q>> : q \in QueryTexts} \cup {<<q, <<"a">>>> : q \in QueryTexts \ {<<>>}}

\* req.url.split("?")[1], as the keys URLSearchParams hands to forEach;
\* undefined and "" are both falsy.
QueryString(url) == IF Len(url) >= 1 THEN url[1] ELSE <<>>

\* paramNames when forEach reaches the entry after the visited ones.
ParamNamesSeen(names, visited) == {names[i] : i \in 1..visited}

\* res.status(400).json(...) once the response has been sent: setting a
\* header throws ERR_HTTP_HEADERS_SENT, which leaves forEach and the
\* middleware.
SendDuplicate(exchange) ==
  IF exchange.sent # <<>>
    THEN [exchange EXCEPT !.phase = "done", !.threw = TRUE]
    ELSE [exchange EXCEPT !.sent = <<400>>, !.visited = @ + 1]

\* The forEach callback on one entry; its return leaves the callback only.
Visit(exchange, key) ==
  IF key \in ParamNamesSeen(exchange.names, exchange.visited)
    THEN SendDuplicate(exchange)
    ELSE [exchange EXCEPT !.visited = @ + 1]

\* The middleware is entered with req.url.
PreventParameterPollution(url) ==
  /\ IF http.handler = "preventParameterPollution" THEN http.phase = "done" ELSE TRUE
  /\ http' = [handler |-> "preventParameterPollution",
              phase |-> IF QueryString(url) # <<>> THEN "forEach" ELSE "done",
              sent |-> <<>>,
              nextCalls |-> IF QueryString(url) # <<>> THEN 0 ELSE 1,
              url |-> url,
              names |-> QueryString(url),
              visited |-> 0,
              threw |-> FALSE]
  /\ UNCHANGED <<engineVars, rateLimitStores, now, windows, tx>>

\* params.forEach calls back for the next entry.
VisitParam ==
  /\ http.handler = "preventParameterPollution"
  /\ http.phase = "forEach"
  /\ http.visited < Len(http.names)
  /\ http' = Visit(http, http.names[http.visited + 1])
  /\ UNCHANGED <<engineVars, rateLimitStores, now, windows, tx>>

\* forEach is over: next().
CallNext ==
  /\ http.handler = "preventParameterPollution"
  /\ http.phase = "forEach"
  /\ http.visited = Len(http.names)
  /\ http' = [http EXCEPT !.phase = "done", !.nextCalls = @ + 1]
  /\ UNCHANGED <<engineVars, rateLimitStores, now, windows, tx>>

InitPollution ==
  /\ DATABASE_URL = FALSE
  /\ InitStore(<<>>)

NextPollution ==
  \/ \E url \in Urls : PreventParameterPollution(url)
  \/ VisitParam
  \/ CallNext

SpecPollution == InitPollution /\ [][NextPollution]_vars

(***************************************************************************)
(* Properties of preventParameterPollution, checked under SpecPollution.   *)
(***************************************************************************)
\* The parameter names of the query string of url: everything that follows
\* the first "?".
NamesOfQuery(url) ==
  IF Len(url) = 0 THEN <<>> ELSE IF Len(url) = 1 THEN url[1] ELSE url[1] \o url[2]

\* The query string repeats a parameter name.
RepeatsName(url) ==
  Cardinality(SeqToSet(NamesOfQuery(url))) < Len(NamesOfQuery(url))

PollutionHandled == http.handler = "preventParameterPollution" /\ http.phase = "done"

\* C30: preventParameterPollution handles each request exactly one way:
\* a single 400 response and no next() when the query string repeats a
\* parameter name, otherwise next() once and no response.
C30_OneWayPerRequest ==
  PollutionHandled =>
    /\ RepeatsName(http.url) => http.sent = <<400>> /\ http.nextCalls = 0
    /\ ~RepeatsName(http.url) => http.sent = <<>> /\ http.nextCalls = 1

\* The same over the requests whose query string repeats no name.
C30_CleanRequestsPass ==
  (PollutionHandled /\ ~RepeatsName(http.url)) =>
    http.sent = <<>> /\ http.nextCalls = 1 /\ ~http.threw

====
